---------------------------- MODULE Spec2Model ----------------------------
(***************************************************************************)
(* ValueOracle: the PurchaseGuard authorization ledger.                    *)
(*                                                                         *)
(* The ledger is the Solidity contract PurchaseGuard (src/unnamed/part_006 *)
(* lines 6-203).  Every external function is one action; a reverted call   *)
(* changes no contract storage and is recorded only in the receipt `last`. *)
(*                                                                         *)
(* Scaling.  A uint256 / bytes32 is a big-endian word of WordBytes bytes,  *)
(* an address is AddrBytes bytes, a string is a sequence of bytes.         *)
(* keccak256 is modelled as collision-free: the digest of a byte string is *)
(* an opaque value that is equal for equal byte strings only.  What        *)
(* abi.encodePacked does to its arguments is modelled byte by byte.        *)
(***************************************************************************)
EXTENDS Integers, Sequences, FiniteSets, TLC

\* ------------------------------------------------------------------ bounds

\* Number of externally owned accounts that send transactions.
NumCallers == 3
\* Cap on _nonce, i.e. on the number of requests ever created, in Spec.
MaxNonce == 1
\* block.timestamp ranges over 1..MaxTime.
MaxTime == 2
\* Prices offered to the ledger are 0..MaxPrice.
MaxPrice == 1
\* Salts offered to a commitment are 0..MaxSalt.
MaxSalt == 1
\* Width in bytes of the model's uint256 / bytes32 word.
WordBytes == 2
\* Width in bytes of the model's address.
AddrBytes == 1
\* A marketplace quotes a price in 0..MaxQuote, 0 meaning it has no offer;
\* an evaluate call proposes a price up to MaxQuote.
MaxQuote == 3
\* A seller has up to MaxReviews agent reviews.
MaxReviews == 4
\* In SpecPrice the oracle reports reference prices 0..MaxRef, besides the
\* ones next to the overflow of referencePrice * 110.
MaxRef == 3

\* --------------------------------------------------------- program constants

\* The account that deploys the contract (constructor's msg.sender).
Deployer == 1
\* Lowest and highest rating submitReview accepts.
MinRating == 1
MaxRating == 5

\* ------------------------------------------------------------------- values

Callers == 1..NumCallers
\* address(0) is the default of an address slot; nobody sends from it.
ZeroAddress == 0
Addresses == {ZeroAddress} \cup Callers

Byte == 0..255
\* The strings offered as itemId, sellerId and comment: "" and "\x00".
Strings == {<<>>, <<0>>}
Prices == 0..MaxPrice
Salts == 0..MaxSalt
\* uint8 ratings offered to submitReview: both edges of 1..5 and both
\* neighbours outside it.
Ratings == {MinRating - 1, MinRating, MaxRating, MaxRating + 1}
\* The comments offered to submitReview.
Comments == {<<0>>}
\* (itemId, proposedPrice, sellerId) and (itemId, proposedPrice, sellerId, salt)
Intents == Strings \X Prices \X Strings
SaltedIntents == Strings \X Prices \X Strings \X Salts
\* Rating triples in which one rating at a time takes each offered value
\* while the other two are the highest valid rating.
RatingTriples ==
    {t \in Ratings \X Ratings \X Ratings :
        Cardinality({i \in 1..3 : t[i] # MaxRating}) <= 1}

\* Largest value of the model's uint256.
RECURSIVE Pow256(_)
Pow256(k) == IF k = 0 THEN 1 ELSE 256 * Pow256(k - 1)
MaxUint == Pow256(WordBytes) - 1

\* ----------------------------------------------------------------- encoding

\* The k low bytes of n, most significant first (abi.encodePacked of a
\* uintN / bytesN / address value).
RECURSIVE BigEndian(_, _)
BigEndian(n, k) ==
    IF k = 0 THEN <<>> ELSE Append(BigEndian(n \div 256, k - 1), n % 256)

AbiWord(n) == BigEndian(n, WordBytes)
AbiAddress(a) == BigEndian(a, AddrBytes)

\* keccak256, collision-free: the digest stands for its preimage and for
\* nothing else.
Keccak256(bytes) == [keccak |-> bytes]

\* A digest taken over a byte string that starts with the 32 bytes of another
\* digest (which the model cannot spell out as bytes).
KeccakAfter(digest, bytes) == [keccak |-> bytes, leading |-> digest]

\* bytes32(0), the default of a digest slot.  No preimage is assumed for it.
ZeroHash == [zero |-> TRUE]

\* abi.encodePacked(itemId, proposedPrice, sellerId, salt): the strings go in
\* without length prefix or padding.
PackIntent(itemId, proposedPrice, sellerId, salt) ==
    itemId \o AbiWord(proposedPrice) \o sellerId \o AbiWord(salt)

\* The commitment revealPurchase recomputes, and the one the agent computes
\* with solidityPackedKeccak256 before requestConfidentialPurchase.
IntentHash(itemId, proposedPrice, sellerId, salt) ==
    Keccak256(PackIntent(itemId, proposedPrice, sellerId, salt))

\* requestId as the first version of the contract derived it, without _nonce.
PurchaseId_NoNonce(itemId, proposedPrice, sellerId, sender, timestamp, n) ==
    Keccak256(itemId \o AbiWord(proposedPrice) \o sellerId \o AbiAddress(sender)
              \o AbiWord(timestamp))

\* requestId of a plain request.
PurchaseId(itemId, proposedPrice, sellerId, sender, timestamp, n) ==
    Keccak256(itemId \o AbiWord(proposedPrice) \o sellerId \o AbiAddress(sender)
              \o AbiWord(timestamp) \o AbiWord(n))

\* The confidential requestId derived without _nonce.
ConfidentialId_NoNonce(intentHash, sender, timestamp, n) ==
    KeccakAfter(intentHash, AbiAddress(sender) \o AbiWord(timestamp))

\* requestId of a confidential request:
\* keccak256(abi.encodePacked(intentHash, msg.sender, block.timestamp, _nonce)).
ConfidentialId(intentHash, sender, timestamp, n) ==
    KeccakAfter(intentHash,
                AbiAddress(sender) \o AbiWord(timestamp) \o AbiWord(n))

\* -------------------------------------------------------------------- state

VARIABLES
    requests,              \* mapping(bytes32 => PurchaseRequest), written slots
    confidentialRequests,  \* mapping(bytes32 => ConfidentialRequest)
    reviews,               \* mapping(bytes32 => AgentReview)
    itemReviews,           \* mapping(string => bytes32[])
    sellerReviews,         \* mapping(string => bytes32[])
    oracle,
    owner,
    nonce,                 \* _nonce
    now,                   \* block.timestamp
    last,                  \* receipt of the latest transaction
    issued,                \* ids returned by request creation, in order
    committed,             \* per confidential id, the fields the agent hashed
    decided,               \* <<function, id>> of every successful fulfillment
    body,                  \* req.body of the evaluate call being served
    answers,               \* per provider, how its promise stands
    response,              \* what res.status(..).json(..) has sent
    blend,                 \* the latest getScore call: its inputs and result
    workflow               \* the CRE handler onPurchaseRequested: its position

storage == <<requests, confidentialRequests, reviews, itemReviews,
             sellerReviews, oracle, owner, nonce>>
ledger == <<storage, now, last, issued, committed, decided>>
engine == <<body, answers, response, blend, workflow>>
vars == <<requests, confidentialRequests, reviews, itemReviews, sellerReviews,
          oracle, owner, nonce, now, last, issued, committed, decided,
          body, answers, response, blend, workflow>>

\* Default (all-zero) values of unwritten mapping slots.
ZeroRequest ==
    [itemId |-> <<>>, proposedPrice |-> 0, sellerId |-> <<>>,
     requester |-> ZeroAddress, fulfilled |-> FALSE, approved |-> FALSE,
     referencePrice |-> 0, timestamp |-> 0]
ZeroConfidential ==
    [intentHash |-> ZeroHash, requester |-> ZeroAddress, fulfilled |-> FALSE,
     approved |-> FALSE, revealed |-> FALSE, referencePrice |-> 0,
     timestamp |-> 0]
ZeroReview ==
    [requestId |-> ZeroHash, reviewer |-> ZeroAddress, qualityRating |-> 0,
     deliveryRating |-> 0, valueRating |-> 0, comment |-> <<>>, timestamp |-> 0]

\* Reading and writing a Solidity mapping held as a function on its written
\* keys.
Slot(map, key, zero) == IF key \in DOMAIN map THEN map[key] ELSE zero
\* A write that lands in every written slot of the mapping.
Put_Everywhere(map, key, value) == [k \in DOMAIN map \cup {key} |-> value]
Put(map, key, value) ==
    [k \in DOMAIN map \cup {key} |-> IF k = key THEN value ELSE map[k]]

getRequest(id) == Slot(requests, id, ZeroRequest)
getConfidentialRequest(id) == Slot(confidentialRequests, id, ZeroConfidential)
getReview(id) == Slot(reviews, id, ZeroReview)
getItemReviewCount(itemId) == Len(Slot(itemReviews, itemId, <<>>))
getSellerReviewCount(sellerId) == Len(Slot(sellerReviews, sellerId, <<>>))

\* A transaction receipt: the function called, the request id it was called
\* with (for a creation, the id it returned), "ok" or the error it reverted
\* with, and the events it emitted.
Receipt(op, id, status, events) ==
    [op |-> op, id |-> id, status |-> status, events |-> events]
Event(name, id, args) == [name |-> name, requestId |-> id, args |-> args]

\* A failure that is reported by an event instead of a revert.
Revert_Logged(op, id, error) ==
    /\ last' = Receipt(op, id, error, <<Event("Failed", id, <<error>>)>>)
    /\ UNCHANGED <<storage, now, issued, committed, decided>>

\* A reverted call: storage and ghosts keep their values.
Revert(op, id, error) ==
    /\ last' = Receipt(op, id, error, <<>>)
    /\ UNCHANGED <<storage, now, issued, committed, decided>>

\* The state the constructor leaves: `oracle` is its argument, `owner` its
\* sender, everything else empty.
Deploy(firstOracle) ==
    /\ requests = <<>>
    /\ confidentialRequests = <<>>
    /\ reviews = <<>>
    /\ itemReviews = <<>>
    /\ sellerReviews = <<>>
    /\ oracle = firstOracle
    /\ owner = Deployer
    /\ nonce = 0
    /\ now = 1
    /\ last = Receipt("constructor", ZeroHash, "ok", <<>>)
    /\ issued = <<>>
    /\ committed = <<>>
    /\ decided = {}

\* ------------------------------------------------------------------ actions

\* onlyOracle that lets the owner through as well.
onlyOracle_OrOwner(sender) == sender = oracle \/ sender = owner

\* onlyOracle that compares with the oracle the contract was deployed with.
onlyOracle_AsDeployed(sender) == sender = Deployer + 1

\* onlyOwner that lets the oracle through as well.
onlyOwner_OrOracle(sender) == sender = owner \/ sender = oracle

\* modifier onlyOracle / onlyOwner: whether the call passes.
onlyOracle(sender) == sender = oracle
onlyOwner(sender) == sender = owner

\* The struct with itemId and sellerId taking each other's place.
NewPurchaseRequest_Swapped(itemId, proposedPrice, sellerId, sender) ==
    [itemId |-> sellerId, proposedPrice |-> proposedPrice,
     sellerId |-> itemId, requester |-> sender, fulfilled |-> FALSE,
     approved |-> FALSE, referencePrice |-> 0, timestamp |-> now]

\* A creation that assigns the fields field by field and leaves approved and
\* referencePrice as the slot had them.
NewPurchaseRequest_KeepDecision(itemId, proposedPrice, sellerId, sender) ==
    LET old == getRequest(PurchaseId(itemId, proposedPrice, sellerId, sender,
                                     now, nonce))
    IN  [itemId |-> itemId, proposedPrice |-> proposedPrice,
         sellerId |-> sellerId, requester |-> sender, fulfilled |-> FALSE,
         approved |-> old.approved, referencePrice |-> old.referencePrice,
         timestamp |-> now]

\* The struct requestPurchase stores.
NewPurchaseRequest(itemId, proposedPrice, sellerId, sender) ==
    [itemId |-> itemId, proposedPrice |-> proposedPrice,
     sellerId |-> sellerId, requester |-> sender, fulfilled |-> FALSE,
     approved |-> FALSE, referencePrice |-> 0, timestamp |-> now]

\* function requestPurchase(itemId, proposedPrice, sellerId).  _nonce++ is
\* checked arithmetic: it reverts at the largest uint.
requestPurchase(sender, itemId, proposedPrice, sellerId) ==
    LET requestId ==
            PurchaseId(itemId, proposedPrice, sellerId, sender, now, nonce)
    IN  IF nonce = MaxUint THEN Revert("requestPurchase", requestId, "Panic")
        ELSE
        /\ nonce' = nonce + 1
        /\ requests' = Put(requests, requestId,
               NewPurchaseRequest(itemId, proposedPrice, sellerId, sender))
        /\ last' = Receipt("requestPurchase", requestId, "ok",
               <<Event("PurchaseRequested", requestId,
                       <<itemId, proposedPrice, sellerId, sender>>)>>)
        /\ issued' = Append(issued, requestId)
        /\ UNCHANGED <<confidentialRequests, reviews, itemReviews,
                       sellerReviews, oracle, owner, now, committed, decided>>

\* The struct requestConfidentialPurchase stores.
NewConfidentialRequest(intentHash, sender) ==
    [intentHash |-> intentHash, requester |-> sender, fulfilled |-> FALSE,
     approved |-> FALSE, revealed |-> FALSE, referencePrice |-> 0,
     timestamp |-> now]

\* requestConfidentialPurchase announcing the intent the way requestPurchase
\* does.
requestConfidentialPurchase_Announced(sender, itemId, proposedPrice, sellerId, salt) ==
    LET intentHash == IntentHash(itemId, proposedPrice, sellerId, salt)
        requestId == ConfidentialId(intentHash, sender, now, nonce)
    IN  /\ nonce' = nonce + 1
        /\ confidentialRequests' = Put(confidentialRequests, requestId,
               NewConfidentialRequest(intentHash, sender))
        /\ last' = Receipt("requestConfidentialPurchase", requestId, "ok",
               <<Event("PurchaseRequested", requestId,
                       <<itemId, proposedPrice, sellerId, sender>>)>>)
        /\ issued' = Append(issued, requestId)
        /\ committed' = Put(committed, requestId,
               <<itemId, proposedPrice, sellerId, salt>>)
        /\ UNCHANGED <<requests, reviews, itemReviews, sellerReviews, oracle,
                       owner, now, decided>>

\* function requestConfidentialPurchase(intentHash), as called by the agent's
\* buy-private command: the agent hashes the intent with a salt and submits
\* only the digest.  `committed` remembers what was hashed.
requestConfidentialPurchase(sender, itemId, proposedPrice, sellerId, salt) ==
    LET intentHash == IntentHash(itemId, proposedPrice, sellerId, salt)
        requestId == ConfidentialId(intentHash, sender, now, nonce)
    IN  IF nonce = MaxUint
        THEN Revert("requestConfidentialPurchase", requestId, "Panic")
        ELSE
        /\ nonce' = nonce + 1
        /\ confidentialRequests' = Put(confidentialRequests, requestId,
               NewConfidentialRequest(intentHash, sender))
        /\ last' = Receipt("requestConfidentialPurchase", requestId, "ok",
               <<Event("ConfidentialPurchaseRequested", requestId,
                       <<intentHash, sender>>)>>)
        /\ issued' = Append(issued, requestId)
        /\ committed' = Put(committed, requestId,
               <<itemId, proposedPrice, sellerId, salt>>)
        /\ UNCHANGED <<requests, reviews, itemReviews, sellerReviews, oracle,
                       owner, now, decided>>

\* The checks of fulfillConfidentialDecision, in the order the code makes
\* them: "ok" or the error of the first that fails.
fulfillConfidentialStatus(sender, requestId) ==
    IF ~onlyOracle(sender) THEN "Unauthorized"
    ELSE IF getConfidentialRequest(requestId).fulfilled THEN "AlreadyFulfilled"
    ELSE "ok"

\* function fulfillConfidentialDecision(requestId, approved, referencePrice)
\*     external onlyOracle
fulfillConfidentialDecision(sender, requestId, approved, referencePrice) ==
    LET op == "fulfillConfidentialDecision"
        req == getConfidentialRequest(requestId)
        status == fulfillConfidentialStatus(sender, requestId)
    IN  IF status # "ok" THEN Revert(op, requestId, status)
        ELSE
        /\ confidentialRequests' = Put(confidentialRequests, requestId,
               [req EXCEPT !.fulfilled = TRUE, !.approved = approved,
                           !.referencePrice = referencePrice])
        /\ last' = Receipt(op, requestId, "ok",
               IF approved
               THEN <<Event("PurchaseApproved", requestId, <<referencePrice>>)>>
               ELSE <<Event("PurchaseRejected", requestId,
                       <<referencePrice, "Confidential evaluation failed">>)>>)
        /\ decided' = decided \cup {<<op, requestId>>}
        /\ UNCHANGED <<requests, reviews, itemReviews, sellerReviews, oracle,
                       owner, nonce, now, issued, committed>>

\* revealPurchase without its `if (computed != req.intentHash) revert` line.
revealStatus_Unchecked(sender, requestId, itemId, proposedPrice, sellerId, salt) ==
    LET req == getConfidentialRequest(requestId)
    IN  IF req.requester # sender THEN "Unauthorized"
        ELSE IF req.revealed THEN "AlreadyRevealed"
        ELSE "ok"

\* revealPurchase without its `if (req.revealed) revert` line.
revealStatus_Rereveal(sender, requestId, itemId, proposedPrice, sellerId, salt) ==
    LET req == getConfidentialRequest(requestId)
        computed == IntentHash(itemId, proposedPrice, sellerId, salt)
    IN  IF req.requester # sender THEN "Unauthorized"
        ELSE IF computed # req.intentHash THEN "InvalidReveal"
        ELSE "ok"

\* revealPurchase made to wait for the oracle's decision.
revealStatus_AfterDecision(sender, requestId, itemId, proposedPrice, sellerId, salt) ==
    LET req == getConfidentialRequest(requestId)
        computed == IntentHash(itemId, proposedPrice, sellerId, salt)
    IN  IF req.requester # sender THEN "Unauthorized"
        ELSE IF req.revealed THEN "AlreadyRevealed"
        ELSE IF computed # req.intentHash THEN "InvalidReveal"
        ELSE IF ~req.fulfilled THEN "NotApproved"
        ELSE "ok"

\* The checks of revealPurchase.
revealStatus(sender, requestId, itemId, proposedPrice, sellerId, salt) ==
    LET req == getConfidentialRequest(requestId)
        computed == IntentHash(itemId, proposedPrice, sellerId, salt)
    IN  IF req.requester # sender THEN "Unauthorized"
        ELSE IF req.revealed THEN "AlreadyRevealed"
        ELSE IF computed # req.intentHash THEN "InvalidReveal"
        ELSE "ok"

\* function revealPurchase(requestId, itemId, proposedPrice, sellerId, salt)
revealPurchase(sender, requestId, itemId, proposedPrice, sellerId, salt) ==
    LET op == "revealPurchase"
        req == getConfidentialRequest(requestId)
        status == revealStatus(sender, requestId, itemId, proposedPrice,
                               sellerId, salt)
    IN  IF status # "ok" THEN Revert(op, requestId, status)
        ELSE
        /\ confidentialRequests' = Put(confidentialRequests, requestId,
               [req EXCEPT !.revealed = TRUE])
        /\ last' = Receipt(op, requestId, "ok",
               <<Event("ConfidentialPurchaseRevealed", requestId,
                       <<itemId, proposedPrice, sellerId>>)>>)
        /\ UNCHANGED <<requests, reviews, itemReviews, sellerReviews, oracle,
                       owner, nonce, now, issued, committed,
                       decided>>

\* The reason with >= in the place of >.
RejectionReason_AtLeast(proposedPrice, referencePrice) ==
    IF proposedPrice >= (referencePrice * 110) \div 100
    THEN "Price exceeds market value"
    ELSE "Seller trust score too low"

\* The reason fulfillOracleDecision gives for a rejection.
RejectionReason(proposedPrice, referencePrice) ==
    IF proposedPrice > (referencePrice * 110) \div 100
    THEN "Price exceeds market value"
    ELSE "Seller trust score too low"

\* fulfillOracleDecision without its `if (req.fulfilled) revert` line.
fulfillOracleStatus_Refulfil(sender, requestId, approved, referencePrice) ==
    IF ~onlyOracle(sender) THEN "Unauthorized"
    ELSE IF ~approved /\ referencePrice * 110 > MaxUint THEN "Panic"
    ELSE "ok"

\* The checks of fulfillOracleDecision.  Solidity 0.8 arithmetic is checked:
\* referencePrice * 110 beyond the largest uint reverts with Panic(0x11)
\* where the rejection reason is computed.
fulfillOracleStatus(sender, requestId, approved, referencePrice) ==
    IF ~onlyOracle(sender) THEN "Unauthorized"
    ELSE IF getRequest(requestId).fulfilled THEN "AlreadyFulfilled"
    ELSE IF ~approved /\ referencePrice * 110 > MaxUint THEN "Panic"
    ELSE "ok"

\* fulfillOracleDecision with the stored flag recomputed from the two prices
\* instead of taken from the caller.
fulfillOracleDecision_Recomputed(sender, requestId, approved, referencePrice) ==
    LET op == "fulfillOracleDecision"
        req == getRequest(requestId)
        status == fulfillOracleStatus(sender, requestId, approved,
                                      referencePrice)
        within == req.proposedPrice <= (referencePrice * 110) \div 100
    IN  IF status # "ok" THEN Revert(op, requestId, status)
        ELSE
        /\ requests' = Put(requests, requestId,
               [req EXCEPT !.fulfilled = TRUE, !.approved = within,
                           !.referencePrice = referencePrice])
        /\ last' = Receipt(op, requestId, "ok",
               IF within
               THEN <<Event("PurchaseApproved", requestId, <<referencePrice>>)>>
               ELSE <<Event("PurchaseRejected", requestId,
                       <<referencePrice,
                         RejectionReason(req.proposedPrice, referencePrice)>>)>>)
        /\ decided' = decided \cup {<<op, requestId>>}
        /\ UNCHANGED <<confidentialRequests, reviews, itemReviews,
                       sellerReviews, oracle, owner, nonce, now, issued,
                       committed>>

\* function fulfillOracleDecision(requestId, approved, referencePrice)
\*     external onlyOracle
fulfillOracleDecision(sender, requestId, approved, referencePrice) ==
    LET op == "fulfillOracleDecision"
        req == getRequest(requestId)
        status == fulfillOracleStatus(sender, requestId, approved,
                                      referencePrice)
    IN  IF status # "ok" THEN Revert(op, requestId, status)
        ELSE
        /\ requests' = Put(requests, requestId,
               [req EXCEPT !.fulfilled = TRUE, !.approved = approved,
                           !.referencePrice = referencePrice])
        /\ last' = Receipt(op, requestId, "ok",
               IF approved
               THEN <<Event("PurchaseApproved", requestId, <<referencePrice>>)>>
               ELSE <<Event("PurchaseRejected", requestId,
                       <<referencePrice,
                         RejectionReason(req.proposedPrice, referencePrice)>>)>>)
        /\ decided' = decided \cup {<<op, requestId>>}
        /\ UNCHANGED <<confidentialRequests, reviews, itemReviews,
                       sellerReviews, oracle, owner, nonce, now, issued,
                       committed>>

\* The rating test with valueRating left out.
InvalidRatings_ValueUntested(qualityRating, deliveryRating, valueRating) ==
    \/ qualityRating < MinRating \/ qualityRating > MaxRating
    \/ deliveryRating < MinRating \/ deliveryRating > MaxRating

\* if (qualityRating < 1 || qualityRating > 5 || deliveryRating < 1 || ...)
InvalidRatings(qualityRating, deliveryRating, valueRating) ==
    \/ qualityRating < MinRating \/ qualityRating > MaxRating
    \/ deliveryRating < MinRating \/ deliveryRating > MaxRating
    \/ valueRating < MinRating \/ valueRating > MaxRating

\* submitReview without its `if (req.requester != msg.sender) revert` line.
submitReviewStatus_AnyCaller(sender, requestId, qualityRating, deliveryRating, valueRating) ==
    LET req == getRequest(requestId)
    IN  IF ~req.approved THEN "NotApproved"
        ELSE IF getReview(requestId).timestamp # 0 THEN "AlreadyReviewed"
        ELSE IF InvalidRatings(qualityRating, deliveryRating, valueRating)
        THEN "InvalidRating"
        ELSE "ok"

\* submitReview without its `if (!req.approved) revert` line.
submitReviewStatus_Unapproved(sender, requestId, qualityRating, deliveryRating, valueRating) ==
    LET req == getRequest(requestId)
    IN  IF req.requester # sender THEN "Unauthorized"
        ELSE IF getReview(requestId).timestamp # 0 THEN "AlreadyReviewed"
        ELSE IF InvalidRatings(qualityRating, deliveryRating, valueRating)
        THEN "InvalidRating"
        ELSE "ok"

\* submitReview without its `if (reviews[requestId].timestamp != 0) revert`
\* line.
submitReviewStatus_Rereview(sender, requestId, qualityRating, deliveryRating, valueRating) ==
    LET req == getRequest(requestId)
    IN  IF req.requester # sender THEN "Unauthorized"
        ELSE IF ~req.approved THEN "NotApproved"
        ELSE IF InvalidRatings(qualityRating, deliveryRating, valueRating)
        THEN "InvalidRating"
        ELSE "ok"

\* The checks of submitReview reading the confidential record where the id
\* has no plain one.
submitReviewStatus_EitherKind(sender, requestId, qualityRating, deliveryRating, valueRating) ==
    LET plain == getRequest(requestId)
        req == IF plain.requester # ZeroAddress THEN plain
               ELSE getConfidentialRequest(requestId)
    IN  IF req.requester # sender THEN "Unauthorized"
        ELSE IF ~req.approved THEN "NotApproved"
        ELSE IF getReview(requestId).timestamp # 0 THEN "AlreadyReviewed"
        ELSE IF InvalidRatings(qualityRating, deliveryRating, valueRating)
        THEN "InvalidRating"
        ELSE "ok"

\* The checks of submitReview.
submitReviewStatus(sender, requestId, qualityRating, deliveryRating, valueRating) ==
    LET req == getRequest(requestId)
    IN  IF req.requester # sender THEN "Unauthorized"
        ELSE IF ~req.approved THEN "NotApproved"
        ELSE IF getReview(requestId).timestamp # 0 THEN "AlreadyReviewed"
        ELSE IF InvalidRatings(qualityRating, deliveryRating, valueRating)
        THEN "InvalidRating"
        ELSE "ok"

\* A push that puts the id in place of the list.
Push_Overwrite(lists, key, requestId) == Put(lists, key, <<requestId>>)

\* itemReviews[key].push(requestId) / sellerReviews[key].push(requestId)
Push(lists, key, requestId) ==
    Put(lists, key, Append(Slot(lists, key, <<>>), requestId))

\* submitReview storing the review without its requestId field.
submitReview_Unlabelled(sender, requestId, qualityRating, deliveryRating, valueRating, comment) ==
    LET op == "submitReview"
        req == getRequest(requestId)
        status == submitReviewStatus(sender, requestId, qualityRating,
                                     deliveryRating, valueRating)
    IN  IF status # "ok" THEN Revert(op, requestId, status)
        ELSE
        /\ reviews' = Put(reviews, requestId,
               [requestId |-> ZeroHash, reviewer |-> sender,
                qualityRating |-> qualityRating,
                deliveryRating |-> deliveryRating,
                valueRating |-> valueRating, comment |-> comment,
                timestamp |-> now])
        /\ itemReviews' = Push(itemReviews, req.itemId, requestId)
        /\ sellerReviews' = Push(sellerReviews, req.sellerId, requestId)
        /\ last' = Receipt(op, requestId, "ok",
               <<Event("ReviewSubmitted", requestId,
                       <<req.itemId, req.sellerId, qualityRating,
                         deliveryRating, valueRating, sender>>)>>)
        /\ UNCHANGED <<requests, confidentialRequests, oracle, owner, nonce,
                       now, issued, committed, decided>>

\* function submitReview(requestId, qualityRating, deliveryRating,
\*                       valueRating, comment)
submitReview(sender, requestId, qualityRating, deliveryRating, valueRating, comment) ==
    LET op == "submitReview"
        req == getRequest(requestId)
        status == submitReviewStatus(sender, requestId, qualityRating,
                                     deliveryRating, valueRating)
    IN  IF status # "ok" THEN Revert(op, requestId, status)
        ELSE
        /\ reviews' = Put(reviews, requestId,
               [requestId |-> requestId, reviewer |-> sender,
                qualityRating |-> qualityRating,
                deliveryRating |-> deliveryRating,
                valueRating |-> valueRating, comment |-> comment,
                timestamp |-> now])
        /\ itemReviews' = Push(itemReviews, req.itemId, requestId)
        /\ sellerReviews' = Push(sellerReviews, req.sellerId, requestId)
        /\ last' = Receipt(op, requestId, "ok",
               <<Event("ReviewSubmitted", requestId,
                       <<req.itemId, req.sellerId, qualityRating,
                         deliveryRating, valueRating, sender>>)>>)
        /\ UNCHANGED <<requests, confidentialRequests, oracle, owner, nonce,
                       now, issued, committed, decided>>

\* setOracle announcing the change with an event.
setOracle_Announced(sender, newOracle) ==
    IF ~onlyOwner(sender) THEN Revert("setOracle", ZeroHash, "Unauthorized")
    ELSE /\ oracle' = newOracle
         /\ last' = Receipt("setOracle", ZeroHash, "ok",
                <<Event("OracleChanged", ZeroHash, <<newOracle>>)>>)
         /\ UNCHANGED <<requests, confidentialRequests, reviews, itemReviews,
                        sellerReviews, owner, nonce, now, issued, committed,
                        decided>>

\* function setOracle(_oracle) external onlyOwner
setOracle(sender, newOracle) ==
    IF ~onlyOwner(sender) THEN Revert("setOracle", ZeroHash, "Unauthorized")
    ELSE /\ oracle' = newOracle
         /\ last' = Receipt("setOracle", ZeroHash, "ok", <<>>)
         /\ UNCHANGED <<requests, confidentialRequests, reviews, itemReviews,
                        sellerReviews, owner, nonce, now, issued, committed,
                        decided>>

\* A later block: block.timestamp grows.
Tick ==
    /\ now < MaxTime
    /\ now' = now + 1
    /\ UNCHANGED <<storage, last, issued, committed, decided>>

\* ---------------------------------------------------------- decision engine
\*
\* The Express handler POST /evaluate (src/unnamed/part_009).  One call is
\* served at a time.  The handler runs up to its await, the four provider
\* promises settle one by one in any order, and the code after the await (or
\* the catch block) runs with the settlement that decides Promise.all.
\*
\* Scaling.  A rating and a return rate are counted in tenths, a seller
\* score in thousandths, prices and review counts in units.  Arithmetic that
\* part_009 does in double precision is done exactly, on fractions.

\* sources[] is built in this order (part_009:91-95).
PriceProviders == <<"marketplaceA", "marketplaceB", "marketplaceC">>
Providers == {PriceProviders[i] : i \in 1..Len(PriceProviders)} \cup {"sellerScore"}

\* What a getPrice promise can fulfil with.
Quotes == 0..MaxQuote
\* seller.score, in thousandths.
Scores == {300, 400, 850}
\* getProductData(itemId): rating and returnRate in tenths.
Products ==
    {[rating |-> 47, reviewCount |-> 12400, returnRate |-> 21],
     [rating |-> 30, reviewCount |-> 0, returnRate |-> 100],
     [rating |-> 0, reviewCount |-> 0, returnRate |-> 0]}

\* req.body: a body without the field price has price === undefined.
Bodies ==
    [itemId : {"", "cable-001"}, price : (0 - 1)..MaxQuote,
     sellerId : {"", "seller-42"}]
    \cup {[itemId |-> "cable-001", sellerId |-> "seller-42"]}

Unasked == [state |-> "unasked", value |-> 0]
Pending == [state |-> "pending", value |-> 0]
Rejected == [state |-> "rejected", value |-> 0]
Fulfilled(v) == [state |-> "fulfilled", value |-> v]
\* The outcomes of one provider's promise.
Settlements(p) ==
    {Rejected} \cup {Fulfilled(v) : v \in IF p = "sellerScore" THEN Scores
                                            ELSE Quotes}

NoResponse == [status |-> 0]

\* The engine before any call.
Listening ==
    /\ body = [itemId |-> "", sellerId |-> ""]
    /\ answers = [p \in Providers |-> Unasked]
    /\ response = NoResponse
    /\ blend = [sellerId |-> <<>>, base |-> 0, reviews |-> <<>>,
                reviewWeight |-> 0, result |-> [score |-> 0, count |-> 0]]
    /\ workflow = [phase |-> "waiting"]

WEIGHTS ==
    [priceFairness |-> 35, qualitySignal |-> 25, sellerTrust |-> 25,
     valueRatio |-> 15]

THRESHOLDS == [approve |-> 70, caution |-> 40]

\* seller.score < 0.4 blocks the seller; the floor in thousandths.
SellerFloor == 400

\* The double NaN: every comparison with it is false.  It is given a value
\* no score takes, and the comparisons below test for it first.
NaN == 0 - 1

Max(a, b) == IF a >= b THEN a ELSE b
Min(a, b) == IF a <= b THEN a ELSE b

\* Array.prototype.sort((a, b) => a - b): ascending by value.
RECURSIVE sort(_)
sort(arr) ==
    IF arr = <<>> THEN <<>>
    ELSE LET rest == sort(Tail(arr))
             k == Cardinality({i \in 1..Len(rest) : rest[i] <= Head(arr)})
         IN  SubSeq(rest, 1, k) \o <<Head(arr)>> \o SubSeq(rest, k + 1, Len(rest))

\* sorted[Math.floor(sorted.length / 2)], JavaScript indices starting at 0.
median(arr) ==
    LET sorted == sort(arr)
    IN  sorted[(Len(sorted) \div 2) + 1]

clamp(val, min, max) == Max(min, Min(max, val))

\* Math.round of the fraction n / d with n >= 0, d > 0.
Round(n, d) == (2 * n + d) \div (2 * d)

\* Every sub-score is kept as a numerator over scale = 1000 * max(price, 1).
calculateValueScore(proposedPrice, referencePrice, rating, reviewCount, returnRate, sellerScoreVal) ==
    LET d == Max(proposedPrice, 1)
        scale == 1000 * d
        priceFairness == clamp(100000 * referencePrice, 0, 100 * scale)
        ratingScore == 1000 * d * rating
        reviewScore == 3 * d * clamp(reviewCount, 0, 10000)
        returnScore == 100 * d * clamp(200 - returnRate, 0, 200)
        qualitySignal == ratingScore + reviewScore + returnScore
        sellerTrust == 100 * d * sellerScoreVal
        \* (rating * 20) / (proposedPrice / referencePrice): a division by
        \* zero when proposedPrice is 0, giving NaN for 0 / 0 and Infinity
        \* otherwise.
        undefinedRatio == proposedPrice = 0 /\ rating = 0
        valueRatio ==
            IF proposedPrice = 0 THEN 100 * scale
            ELSE clamp(2000 * rating * referencePrice, 0, 100 * scale)
        raw == priceFairness * WEIGHTS.priceFairness
                + qualitySignal * WEIGHTS.qualitySignal
                + sellerTrust * WEIGHTS.sellerTrust
                + valueRatio * WEIGHTS.valueRatio
    IN  [valueScore |-> IF undefinedRatio THEN NaN
                        ELSE clamp(Round(raw, 100 * scale), 0, 100),
         breakdown |->
            [priceFairness |-> Round(priceFairness, scale),
             qualitySignal |-> Round(qualitySignal, scale),
             sellerTrust |-> Round(sellerTrust, scale),
             valueRatio |-> IF undefinedRatio THEN NaN
                            ELSE Round(valueRatio, scale)]]

\* buildReason with the seller-trust test ahead of the price test.
buildReason_TrustFirst(approved, breakdown, sellerBlocked) ==
    IF sellerBlocked THEN "Seller trust critically low - blocked"
    ELSE IF approved THEN "Fair price and trusted seller"
    ELSE IF breakdown.sellerTrust < 50 THEN "Seller trust too low"
    ELSE IF breakdown.priceFairness < 50 THEN "Price above market median"
    ELSE IF breakdown.qualitySignal < 40 THEN "Low product quality"
    ELSE "Value score below threshold"

\* The fixed part of the reason text; the figures put into it are left out.
buildReason(approved, breakdown, sellerBlocked) ==
    IF sellerBlocked THEN "Seller trust critically low - blocked"
    ELSE IF approved THEN "Fair price and trusted seller"
    ELSE IF breakdown.priceFairness < 50 THEN "Price above market median"
    ELSE IF breakdown.sellerTrust < 50 THEN "Seller trust too low"
    ELSE IF breakdown.qualitySignal < 40 THEN "Low product quality"
    ELSE "Value score below threshold"

\* getDealData(itemId) = deals[itemId] || DEFAULT_DEAL, the newest
\* marketplaceA adapter (part_012:21-44), for the items of Bodies.
getDealData(itemId) ==
    IF itemId = "cable-001"
    THEN [cashback |-> 0, coupon |-> 0, shippingFee |-> 5]
    ELSE [cashback |-> 0, coupon |-> 0, shippingFee |-> 0]

\* ------------------------------------------------------------ trust blender
\*
\* getScore of the seller reputation service with agent reviews
\* (src/api/sources/sellerScore.js:19-93).  A baseline and a final score
\* are counted in thousandths, a rating average in hundredths, the review
\* weight in tenths.

\* sellers[..].score and DEFAULT_SELLER.score.
Baselines == {150, 300, 500, 850, 920}

\* { quality, delivery, value } of one agent review.
AgentRatings == {<<5, 4, 5>>, <<2, 1, 1>>}

RECURSIVE ReviewListsOf(_)
ReviewListsOf(n) ==
    IF n = 0 THEN {<<>>}
    ELSE LET shorter == ReviewListsOf(n - 1)
         IN  shorter \cup {Append(l, r) : l \in {x \in shorter : Len(x) = n - 1},
                                           r \in AgentRatings}

\* agentReviews[sellerId]: up to MaxReviews reviews.
ReviewLists == ReviewListsOf(MaxReviews)

RECURSIVE SumOf(_, _)
SumOf(list, field) ==
    IF list = <<>> THEN 0
    ELSE Head(list)[field] + SumOf(Tail(list), field)

\* getReviewStats: count and overall, the mean of the three averages
\* rounded to two decimals; count 0 stands for the null of no reviews.
getReviewStats(list) ==
    IF Len(list) = 0 THEN [count |-> 0, overall |-> 0]
    ELSE [count |-> Len(list),
          overall |-> Round(100 * (SumOf(list, 1) + SumOf(list, 2)
                                   + SumOf(list, 3)),
                            3 * Len(list))]

\* The cap left out: count * 0.1.
reviewWeight_Uncapped(count) == count

\* Math.min(reviewStats.count * 0.1, 0.3), in tenths.
reviewWeight(count) == Min(count, 3)

\* getScore: base.score * (1 - reviewWeight) + reviewScore * reviewWeight
\* with reviewScore = overall / 5, rounded to three decimals.
getScore(base, list) ==
    LET reviewStats == getReviewStats(list)
        w == reviewWeight(reviewStats.count)
        finalScore ==
            IF reviewStats.count >= 1
            THEN Round(base * (10 - w) + 2 * reviewStats.overall * w, 10)
            ELSE base
    IN  [score |-> finalScore, count |-> reviewStats.count]

\* The tables of the service as shipped: sellers and agentReviews are
\* constants of the module (sellerScore.js:21-42); the seller of the
\* model with reviews stands for 'seller-42', the other has none.
sellersScore(sellerId) == IF sellerId = <<0>> THEN 850 ELSE 500

agentReviews(sellerId) ==
    IF sellerId = <<0>> THEN <<<<5, 4, 5>>, <<4, 5, 4>>, <<5, 5, 5>>>> ELSE <<>>

\* One call of getScore, with the weight it used.
scoreSeller(sellerId, base, list) ==
    blend' = [sellerId |-> sellerId, base |-> base, reviews |-> list,
              reviewWeight |-> IF Len(list) >= 1
                               THEN reviewWeight(Len(list)) ELSE 0,
              result |-> getScore(base, list)]

\* The hard cut lifted: no seller is blocked.
sellerBlocked_Never(score) == score < 0

\* seller.score < 0.4 (part_009:114).
sellerBlocked(score) == score < SellerFloor

\* The three price entries, those with price > 0 kept.
Sources(settled) ==
    SelectSeq([i \in 1..Len(PriceProviders) |->
                  [name |-> PriceProviders[i],
                   price |-> settled[PriceProviders[i]].value]],
              LAMBDA s : s.price > 0)

\* part_009:91-124: the code after the await, all four promises fulfilled.
Decide(price, settled, productData) ==
    LET sources == Sources(settled)
        seller == settled["sellerScore"].value
    IN  IF Len(sources) = 0
        THEN [status |-> 404, error |-> "Item not found in any marketplace"]
        ELSE LET referencePrice ==
                     median([i \in 1..Len(sources) |-> sources[i].price])
                 score == calculateValueScore(price, referencePrice,
                              productData.rating, productData.reviewCount,
                              productData.returnRate, seller)
                 valueScore == score.valueScore
                 blocked == sellerBlocked(seller)
                 approved == /\ ~blocked
                             /\ valueScore # NaN
                             /\ valueScore >= THRESHOLDS.approve
                 verdict ==
                     IF approved THEN "APPROVE"
                     ELSE IF valueScore # NaN /\ valueScore >= THRESHOLDS.caution
                          THEN "CAUTION"
                          ELSE "REJECT"
             IN  [status |-> 200, approved |-> approved, verdict |-> verdict,
                  valueScore |-> valueScore,
                  referencePrice |-> referencePrice,
                  reason |-> buildReason(approved, score.breakdown, blocked),
                  breakdown |-> score.breakdown, sources |-> sources,
                  product |-> productData, seller |-> [score |-> seller]]

\* part_009:75-82: the body is refused before any provider is asked.
Refusal(b) ==
    IF b.itemId = "" \/ "price" \notin DOMAIN b \/ b.sellerId = ""
    THEN [status |-> 400,
          error |-> "Missing required fields: itemId, price, sellerId"]
    ELSE IF b.price < 0
    THEN [status |-> 400, error |-> "Price must be a non-negative number"]
    ELSE NoResponse

\* A call arrives and runs to the await of Promise.all.
evaluate(b) ==
    /\ \A p \in Providers : answers[p].state # "pending" \/ response # NoResponse
    /\ body' = b
    /\ response' = Refusal(b)
    /\ answers' = [p \in Providers |->
                      IF Refusal(b) = NoResponse THEN Pending ELSE Unasked]

\* One provider's promise settles.  Promise.all rejects with the first
\* rejection, which runs the catch block, and fulfils when the last promise
\* has fulfilled, which runs the rest of the handler.  A promise that
\* settles after the response was sent changes nothing.
settle(p, outcome, productData) ==
    /\ answers[p] = Pending
    /\ answers' = [answers EXCEPT ![p] = outcome]
    /\ response' =
          IF response # NoResponse THEN response
          ELSE IF outcome = Rejected
          THEN [status |-> 500, error |-> "Internal server error"]
          ELSE IF \A q \in Providers : answers'[q].state = "fulfilled"
          THEN Decide(body.price, answers', productData)
          ELSE NoResponse
    /\ UNCHANGED body

\* -------------------------------------------------------------- orchestrator
\*
\* The CRE workflow src/valueoracle-cre/purchase-guard/main.ts: a log
\* trigger on PurchaseRequested runs onPurchaseRequested, which decodes
\* the log, posts the purchase to the decision engine and returns a text.

\* The engine's string for a string of the ledger: the empty one, or the
\* given name for a non-empty one.
Text(bytes, name) == IF bytes = <<>> THEN "" ELSE name

\* decodePurchaseEvent (main.ts:37-53).
decodePurchaseEvent(log) ==
    [requestId |-> log.requestId,
     itemId |-> Text(log.args[1], "cable-001"),
     proposedPrice |-> log.args[2],
     sellerId |-> Text(log.args[3], "seller-42"),
     requester |-> log.args[4]]

\* main.ts:89-107: the trigger delivers the log, the handler decodes it
\* and sends POST /evaluate.
onPurchaseRequested(log) ==
    /\ workflow.phase = "waiting"
    /\ log.name = "PurchaseRequested"
    /\ LET purchase == decodePurchaseEvent(log)
       IN  /\ evaluate([itemId |-> purchase.itemId,
                        price |-> purchase.proposedPrice,
                        sellerId |-> purchase.sellerId])
           /\ workflow' = [phase |-> "evaluating", purchase |-> purchase]
    /\ UNCHANGED <<ledger, blend>>

\* main.ts:70-86, 108-125: the response arrives; a status other than 2xx
\* throws, otherwise the handler logs a summary and returns its text.  It
\* sends no transaction.
handlerReturns ==
    /\ workflow.phase = "evaluating"
    /\ response # NoResponse
    /\ workflow' =
          IF response.status # 200
          THEN [phase |-> "threw", purchase |-> workflow.purchase]
          ELSE [phase |-> "returned", purchase |-> workflow.purchase,
                result |-> [approved |-> response.approved,
                            verdict |-> response.verdict,
                            valueScore |-> response.valueScore,
                            referencePrice |-> response.referencePrice,
                            reason |-> response.reason]]
    /\ UNCHANGED <<ledger, body, answers, response, blend>>

\* ----------------------------------------------------------- specifications

\* What the environment offers to the ledger in one specification:
\*   maxNonce  how many requests are created
\*   agents    the callers that create requests
\*   intents   the (itemId, proposedPrice, sellerId) of plain requests
\*   commits   the salted intents agents commit to
\*   reveals   the salted intents offered to revealPurchase
\*   refs      the reference prices the oracle reports
\*   ratings   the rating triples offered to submitReview
\*   comments  the comments offered to submitReview
\*   oracles   the addresses offered to setOracle
\*   strays    ids named in calls though no creation has returned them
\* Every caller may call every function with every id returned so far.
Targets(u) == {issued[i] : i \in 1..Len(issued)} \cup u.strays

RequestPurchase(u) ==
    /\ nonce < u.maxNonce
    /\ \E sender \in u.agents, intent \in u.intents :
          requestPurchase(sender, intent[1], intent[2], intent[3])

RequestConfidentialPurchase(u) ==
    /\ nonce < u.maxNonce
    /\ \E sender \in u.agents, c \in u.commits :
          requestConfidentialPurchase(sender, c[1], c[2], c[3], c[4])

FulfillConfidentialDecision(u) ==
    \E sender \in Callers, requestId \in Targets(u), approved \in BOOLEAN,
       referencePrice \in u.refs :
        fulfillConfidentialDecision(sender, requestId, approved,
                                    referencePrice)

RevealPurchase(u) ==
    \E sender \in Callers, requestId \in Targets(u), r \in u.reveals :
        revealPurchase(sender, requestId, r[1], r[2], r[3], r[4])

FulfillOracleDecision(u) ==
    \E sender \in Callers, requestId \in Targets(u), approved \in BOOLEAN,
       referencePrice \in u.refs :
        fulfillOracleDecision(sender, requestId, approved, referencePrice)

SubmitReview(u) ==
    \E sender \in Callers, requestId \in Targets(u), t \in u.ratings,
       comment \in u.comments :
        submitReview(sender, requestId, t[1], t[2], t[3], comment)

SetOracle(u) ==
    \E sender \in Callers, newOracle \in u.oracles :
        setOracle(sender, newOracle)

\* A transaction leaves the decision engine as it is.
Ledger(u) ==
    \/ RequestPurchase(u) /\ UNCHANGED engine
    \/ RequestConfidentialPurchase(u) /\ UNCHANGED engine
    \/ FulfillConfidentialDecision(u) /\ UNCHANGED engine
    \/ RevealPurchase(u) /\ UNCHANGED engine
    \/ FulfillOracleDecision(u) /\ UNCHANGED engine
    \/ SubmitReview(u) /\ UNCHANGED engine
    \/ SetOracle(u) /\ UNCHANGED engine
    \/ Tick /\ UNCHANGED engine

\* The oracle the contract is deployed with: the caller after the deployer.
FirstOracle == Deployer + 1
Init == Deploy(FirstOracle) /\ Listening

\* Spec: one request of either kind; every caller calls every function on
\* its id, with every salted intent offered to revealPurchase.
General ==
    [maxNonce |-> MaxNonce,
     agents   |-> Callers,
     intents  |-> Intents,
     commits  |-> {<<<<>>, 0, <<0>>, 0>>},
     reveals  |-> SaltedIntents,
     refs     |-> {MaxPrice},
     ratings  |-> RatingTriples,
     comments |-> Comments,
     oracles  |-> Callers \ {Deployer},
     strays   |-> {}]

Next == Ledger(General)

Spec == Init /\ [][Next]_vars

\* The id the first plain request of the last caller gets when it is created
\* in the first block.  _nonce and the block's timestamp can be read off the
\* chain, so the id can be computed before the request exists.
ForeseenId == PurchaseId(<<0>>, MaxPrice, <<>>, NumCallers, 1, 0)

\* SpecStray: one request, created by the last caller; every caller calls
\* every function on the ids returned so far and on ForeseenId, before and
\* after a creation returns it (if one does).
Stray ==
    [General EXCEPT
        !.agents = {NumCallers},
        !.intents = {<<<<0>>, MaxPrice, <<>>>>},
        !.strays = {ForeseenId},
        !.reveals = {<<<<>>, 0, <<0>>, 0>>, <<<<>>, 0, <<0>>, MaxSalt>>},
        !.ratings = {<<MaxRating, MaxRating, MaxRating>>,
                     <<MaxRating, MaxRating, MaxRating + 1>>}]

NextStray == Ledger(Stray)

SpecStray == Init /\ [][NextStray]_vars

\* SpecPair: two requests of the last caller, of the same kind or not, for
\* the same item and seller or not, in the same block or not.
Pair ==
    [maxNonce |-> MaxNonce + 1,
     agents   |-> {NumCallers},
     intents  |-> {<<<<0>>, MaxPrice, <<>>>>, <<<<>>, 0, <<0>>>>},
     commits  |-> {<<<<>>, 0, <<0>>, 0>>},
     reveals  |-> {<<<<>>, 0, <<0>>, 0>>, <<<<>>, 0, <<0>>, MaxSalt>>},
     refs     |-> {MaxPrice},
     ratings  |-> {<<MaxRating, MaxRating, MaxRating>>,
                   <<MaxRating, MaxRating, MaxRating + 1>>},
     comments |-> Comments,
     oracles  |-> {FirstOracle},
     strays   |-> {}]

NextPair == Ledger(Pair)

SpecPair == Init /\ [][NextPair]_vars

\* SpecPrice: one request of the last caller, at prices on both sides of 110%
\* of the reference prices the first oracle reports, which include the
\* largest referencePrice whose product with 110 fits a word, the next one,
\* and the largest word.
PricedRefs ==
    (0..MaxRef) \cup {MaxUint \div 110, MaxUint \div 110 + 1, MaxUint}
PricedPrices ==
    LET fitting == {r \in PricedRefs : r * 110 <= MaxUint}
    IN  {(r * 110) \div 100 : r \in fitting}
            \cup {(r * 110) \div 100 + 1 : r \in fitting} \cup {MaxUint}
Priced ==
    [General EXCEPT
        !.agents = {NumCallers},
        !.intents = {<<<<0>>, price, <<>>>> : price \in PricedPrices},
        !.reveals = {<<<<>>, 0, <<0>>, 0>>},
        !.refs = PricedRefs,
        !.ratings = {<<MaxRating, MaxRating, MaxRating>>},
        !.oracles = {FirstOracle}]

NextPrice == Ledger(Priced)

SpecPrice == Init /\ [][NextPrice]_vars

\* SpecEngine: evaluate calls, one after the other, with every body and
\* every settlement of the four providers in every order; no transaction.
Evaluate ==
    /\ \E b \in Bodies : evaluate(b)
    /\ UNCHANGED <<ledger, blend, workflow>>

Settle ==
    /\ \E p \in Providers, productData \in Products :
          \E outcome \in Settlements(p) : settle(p, outcome, productData)
    /\ UNCHANGED <<ledger, blend, workflow>>

NextEngine == Evaluate \/ Settle

SpecEngine == Init /\ [][NextEngine]_vars

\* SpecSilent: the same calls, where the event loop runs the continuation
\* of every promise that settles, and every provider's promise settles in
\* the end except marketplaceB's, which may stay pending for ever.  The
\* handler awaits Promise.all without a timer (part_009:84-89), so no step of
\* the engine stands for a timeout.
Silent == "marketplaceB"
SettleOf(p) ==
    /\ \E productData \in Products, outcome \in Settlements(p) :
          settle(p, outcome, productData)
    /\ UNCHANGED <<ledger, blend, workflow>>
Answering == \A p \in Providers \ {Silent} : WF_vars(SettleOf(p))
SpecSilent == Init /\ [][NextEngine]_vars /\ Answering

\* SpecBlend: getScore called on every baseline and every list of reviews.
ScoreSeller ==
    /\ \E sellerId \in Strings, base \in Baselines, list \in ReviewLists :
          scoreSeller(sellerId, base, list)
    /\ UNCHANGED <<ledger, body, answers, response, workflow>>

NextBlend == ScoreSeller

SpecBlend == Init /\ [][NextBlend]_vars

\* SpecFeedback: the ledger of SpecStray next to the seller reputation
\* service as shipped, asked for the score of either seller at any time.
ScoreLedgerSeller ==
    /\ \E sellerId \in Strings :
          scoreSeller(sellerId, sellersScore(sellerId), agentReviews(sellerId))
    /\ UNCHANGED <<ledger, body, answers, response, workflow>>

NextFeedback == Ledger(Stray) \/ ScoreLedgerSeller

SpecFeedback == Init /\ [][NextFeedback]_vars

\* SpecFlow: one agent creates one plain request; the workflow, which
\* holds the oracle's key, is the only other party.
Flow == [General EXCEPT !.agents = {NumCallers}]

Request == RequestPurchase(Flow) /\ UNCHANGED engine

Trigger == \E i \in 1..Len(last.events) : onPurchaseRequested(last.events[i])

Answer ==
    /\ \E p \in Providers, productData \in Products :
          \E outcome \in Settlements(p) : settle(p, outcome, productData)
    /\ UNCHANGED <<ledger, blend, workflow>>

Return == handlerReturns

NextFlow == Request \/ Trigger \/ Answer \/ Return

SpecFlow == Init /\ [][NextFlow]_vars

\* ------------------------------------------------------------------- claims

\* The ids request creation has returned so far.
Issued == {issued[i] : i \in 1..Len(issued)}

PlainOp == "fulfillOracleDecision"
ConfidentialOp == "fulfillConfidentialDecision"

\* C1.  After a successful fulfillOracleDecision (or
\* fulfillConfidentialDecision) on an id, every later call of that function
\* on the same id by the oracle reverts with AlreadyFulfilled and leaves the
\* stored fulfilled, approved and referencePrice as they are: of all
\* fulfillment attempts on one id at most one succeeds.
C1_FulfilledAtMostOnce ==
    [][(/\ last'.op \in {PlainOp, ConfidentialOp}
        /\ <<last'.op, last'.id>> \in decided)
       => \/ /\ last'.status = "AlreadyFulfilled"
             /\ UNCHANGED storage
          \/ \A approved \in BOOLEAN, referencePrice \in Prices :
               /\ ~fulfillOracleDecision(oracle, last'.id, approved,
                                         referencePrice)
               /\ ~fulfillConfidentialDecision(oracle, last'.id, approved,
                                               referencePrice)]_vars

\* C1 from creation on: a request that is fulfilled after a creation returned
\* its id keeps fulfilled, approved and referencePrice in every step, and
\* the oracle's calls on it revert with AlreadyFulfilled.
C1_OnceCreated ==
    [][\A id \in Issued :
        /\ getRequest(id).fulfilled =>
            /\ getRequest(id)'.fulfilled
            /\ getRequest(id)'.approved = getRequest(id).approved
            /\ getRequest(id)'.referencePrice = getRequest(id).referencePrice
            /\ \A approved \in BOOLEAN, referencePrice \in Prices :
                 (/\ last'.op = PlainOp
                  /\ last'.id = id
                  /\ fulfillOracleDecision(oracle, id, approved,
                                           referencePrice))
                 => last'.status = "AlreadyFulfilled"
        /\ getConfidentialRequest(id).fulfilled =>
            /\ getConfidentialRequest(id)'.fulfilled
            /\ getConfidentialRequest(id)'.approved
                  = getConfidentialRequest(id).approved
            /\ getConfidentialRequest(id)'.referencePrice
                  = getConfidentialRequest(id).referencePrice
            /\ \A approved \in BOOLEAN, referencePrice \in Prices :
                 (/\ last'.op = ConfidentialOp
                  /\ last'.id = id
                  /\ fulfillConfidentialDecision(oracle, id, approved,
                                                 referencePrice))
                 => last'.status = "AlreadyFulfilled"]_vars

\* C2.  A fulfillment call of either kind by a caller that is not the current
\* oracle reverts with Unauthorized and leaves the storage as it was, whether
\* the id is pending, fulfilled or was never returned by a creation.
C2_OnlyOracleFulfils ==
    [][last'.op \in {PlainOp, ConfidentialOp} =>
        \/ /\ last'.status = "Unauthorized"
           /\ UNCHANGED storage
        \/ \A sender \in Callers \ {oracle}, approved \in BOOLEAN,
              referencePrice \in Prices :
               /\ ~fulfillOracleDecision(sender, last'.id, approved,
                                         referencePrice)
               /\ ~fulfillConfidentialDecision(sender, last'.id, approved,
                                               referencePrice)]_vars

\* C2 witness: a fulfillment of a pending request was refused as Unauthorized
\* while neither the owner nor the requester is the oracle.
C2_Witness ==
    /\ last.op = PlainOp
    /\ last.status = "Unauthorized"
    /\ owner # oracle
    /\ last.id \in DOMAIN requests
    /\ ~requests[last.id].fulfilled
    /\ requests[last.id].requester \notin {oracle, ZeroAddress}

\* C3.  A created plain request that is fulfilled stays fulfilled and keeps
\* itemId, proposedPrice, sellerId, requester, approved and referencePrice
\* in every step of every caller.
C3_FulfilmentIsTerminal ==
    [][\A id \in Issued :
          getRequest(id).fulfilled
          => /\ getRequest(id)'.fulfilled
             /\ getRequest(id)' = getRequest(id)]_vars

\* C3 witness: a request was fulfilled and reviewed, and another request was
\* created after that.
C3_Witness ==
    /\ last.op = "requestPurchase"
    /\ \E id \in Issued :
          /\ getRequest(id).fulfilled
          /\ id \in DOMAIN reviews

\* C4.  The id a creation returns was returned by no earlier creation of
\* either kind, and the creation leaves the records of all earlier requests
\* as they are.
C4_FreshIds ==
    [][issued' # issued =>
        LET id == issued'[Len(issued')]
        IN  /\ id \notin Issued
            /\ last'.id = id
            /\ last'.status = "ok"
            /\ \A k \in Issued :
                  /\ getRequest(k)' = getRequest(k)
                  /\ getConfidentialRequest(k)' = getConfidentialRequest(k)]_vars

\* C4 witness: two plain requests with the same fields, by the same caller,
\* in the same block, and two confidential ones likewise, exist under
\* different ids.
C4_Witness ==
    /\ Len(issued) = 2
    /\ issued[1] # issued[2]
    /\ \/ /\ getRequest(issued[1]).requester # ZeroAddress
          /\ getRequest(issued[1]) = getRequest(issued[2])
       \/ /\ getConfidentialRequest(issued[1]).requester # ZeroAddress
          /\ getConfidentialRequest(issued[1])
                = getConfidentialRequest(issued[2])

\* C5.  requestPurchase(itemId, proposedPrice, sellerId) succeeds and returns
\* an id under which getRequest gives exactly that itemId, proposedPrice and
\* sellerId, the caller as requester, fulfilled = false, approved = false,
\* referencePrice = 0 and the block's time as timestamp.
C5_RequestRoundTrip ==
    [][last'.op = "requestPurchase" =>
        \A sender \in General.agents, intent \in General.intents :
            requestPurchase(sender, intent[1], intent[2], intent[3])
            => /\ last'.status = "ok"
               /\ Slot(requests', last'.id, ZeroRequest) =
                    [itemId |-> intent[1], proposedPrice |-> intent[2],
                     sellerId |-> intent[3], requester |-> sender,
                     fulfilled |-> FALSE, approved |-> FALSE,
                     referencePrice |-> 0, timestamp |-> now]]_vars

\* C5 witness: a request whose itemId and sellerId differ and whose price is
\* not zero was created after the first block by a caller that is neither
\* owner nor oracle.
C5_Witness ==
    /\ last.op = "requestPurchase"
    /\ last.status = "ok"
    /\ getRequest(last.id).itemId # getRequest(last.id).sellerId
    /\ getRequest(last.id).proposedPrice # 0
    /\ getRequest(last.id).timestamp = now
    /\ now > 1
    /\ getRequest(last.id).requester \notin {owner, oracle, ZeroAddress}

\* Two (itemId, proposedPrice, sellerId, salt) tuples that differ in exactly
\* one of the four fields.
OneFieldDiffers(t, c) == Cardinality({i \in 1..4 : t[i] # c[i]}) = 1

\* C6.  A revealPurchase by the requester of a request that is not yet
\* revealed succeeds, setting revealed, exactly when the hash of its four
\* fields is the stored intentHash; fields that differ from the committed
\* ones in exactly one field make it revert with InvalidReveal and leave
\* revealed false.
C6_RevealIffHashMatches ==
    [][last'.op = "revealPurchase" =>
        \A sender \in Callers, t \in General.reveals :
            LET id  == last'.id
                req == getConfidentialRequest(id)
            IN  (/\ req.requester = sender
                 /\ ~req.revealed
                 /\ revealPurchase(sender, id, t[1], t[2], t[3], t[4]))
                => /\ last'.status = "ok"
                      <=> IntentHash(t[1], t[2], t[3], t[4]) = req.intentHash
                   /\ last'.status = "ok"
                      => Slot(confidentialRequests', id, ZeroConfidential).revealed
                   /\ last'.status # "ok"
                      => ~Slot(confidentialRequests', id, ZeroConfidential).revealed
                   /\ (id \in DOMAIN committed
                       /\ OneFieldDiffers(t, committed[id]))
                      => /\ last'.status = "InvalidReveal"
                         /\ ~Slot(confidentialRequests', id, ZeroConfidential).revealed]_vars

\* C6 witness: the requester's reveal was refused as InvalidReveal and the
\* request is still not revealed.
C6_Witness ==
    /\ last.op = "revealPurchase"
    /\ last.status = "InvalidReveal"
    /\ last.id \in DOMAIN committed
    /\ ~getConfidentialRequest(last.id).revealed

\* C7.  The commitment is binding: a revealPurchase that succeeds carries the
\* very (itemId, proposedPrice, sellerId, salt) the intentHash was computed
\* from.
C7_CommitmentBinding ==
    [][(last'.op = "revealPurchase" /\ last'.status = "ok") =>
        \A sender \in Callers, t \in General.reveals :
            (/\ last'.id \in DOMAIN committed
             /\ revealPurchase(sender, last'.id, t[1], t[2], t[3], t[4]))
            => t = committed[last'.id]]_vars

\* C8.  revealPurchase by anyone but the requester reverts with Unauthorized;
\* by the requester on a request already revealed it reverts with
\* AlreadyRevealed; a request that is revealed stays revealed.
C8_RevealGuards ==
    [][/\ \A id \in DOMAIN confidentialRequests :
            confidentialRequests[id].revealed
            => getConfidentialRequest(id)'.revealed
       /\ last'.op = "revealPurchase" =>
            \A sender \in Callers :
                LET id  == last'.id
                    req == getConfidentialRequest(id)
                    Called == \E t \in Stray.reveals :
                                 revealPurchase(sender, id, t[1], t[2], t[3],
                                                t[4])
                IN  /\ sender # req.requester
                       => \/ /\ last'.status = "Unauthorized"
                             /\ UNCHANGED storage
                          \/ ~Called
                    /\ (sender = req.requester /\ req.revealed)
                       => \/ /\ last'.status = "AlreadyRevealed"
                             /\ UNCHANGED storage
                          \/ ~Called]_vars

\* C8 witness: a second reveal of a revealed request was refused as
\* AlreadyRevealed.
C8_Witness ==
    /\ last.op = "revealPurchase"
    /\ last.status = "AlreadyRevealed"
    /\ getConfidentialRequest(last.id).revealed

\* C9.  submitReview by anyone but the requester of the request reverts with
\* Unauthorized and stores nothing.
C9_OnlyRequesterReviews ==
    [][last'.op = "submitReview" =>
        \A sender \in Callers :
            sender # getRequest(last'.id).requester
            => \/ /\ last'.status = "Unauthorized"
                  /\ UNCHANGED storage
               \/ \A r \in Stray.ratings, comment \in Stray.comments :
                     ~submitReview(sender, last'.id, r[1], r[2], r[3],
                                   comment)]_vars

\* C9 witness: a review of an approved, not yet reviewed request was refused
\* as Unauthorized.
C9_Witness ==
    /\ last.op = "submitReview"
    /\ last.status = "Unauthorized"
    /\ getRequest(last.id).approved
    /\ getReview(last.id).timestamp = 0

\* C10.  submitReview by the requester of a request that is pending or was
\* rejected reverts with NotApproved and stores nothing.
C10_ReviewNeedsApproval ==
    [][last'.op = "submitReview" =>
        \A sender \in Callers :
            LET req == getRequest(last'.id)
            IN  (sender = req.requester /\ ~(req.fulfilled /\ req.approved))
                => \/ /\ last'.status = "NotApproved"
                      /\ UNCHANGED storage
                   \/ \A r \in General.ratings, comment \in General.comments :
                         ~submitReview(sender, last'.id, r[1], r[2], r[3],
                                       comment)]_vars

\* C10 witness: the review of a request the oracle rejected was refused as
\* NotApproved.
C10_Witness ==
    /\ last.op = "submitReview"
    /\ last.status = "NotApproved"
    /\ getRequest(last.id).requester # ZeroAddress
    /\ getRequest(last.id).fulfilled
    /\ ~getRequest(last.id).approved

\* C11.  Once a review is stored for a request, every submitReview on its id
\* by the requester reverts with AlreadyReviewed, whatever the ratings and
\* whenever the first review was stored; the stored review stays as it is,
\* and no id occurs twice in an item or seller review list.
C11_OneReviewPerRequest ==
    [][/\ \A id \in DOMAIN reviews : getReview(id)' = reviews[id]
       /\ \A key \in Strings :
            LET items   == Slot(itemReviews', key, <<>>)
                sellers == Slot(sellerReviews', key, <<>>)
            IN  /\ \A i, j \in 1..Len(items) : items[i] = items[j] => i = j
                /\ \A i, j \in 1..Len(sellers) :
                      sellers[i] = sellers[j] => i = j
       /\ (last'.op = "submitReview" /\ last'.id \in DOMAIN reviews) =>
            \/ /\ last'.status = "AlreadyReviewed"
               /\ UNCHANGED storage
            \/ \A r \in Stray.ratings, comment \in Stray.comments :
                  ~submitReview(getRequest(last'.id).requester, last'.id,
                                r[1], r[2], r[3], comment)]_vars

\* C11 witness: a second review was refused as AlreadyReviewed in a later
\* block than the one in which the first was stored.
C11_Witness ==
    /\ last.op = "submitReview"
    /\ last.status = "AlreadyReviewed"
    /\ last.id \in DOMAIN reviews
    /\ reviews[last.id].timestamp < now

\* C12 as stated: every submitReview with a rating outside 1..5 reverts with
\* InvalidRating.
C12_AlwaysInvalidRating ==
    [][last'.op = "submitReview" =>
        \/ last'.status = "InvalidRating"
        \/ \A sender \in Callers, r \in General.ratings,
              comment \in General.comments :
              InvalidRatings(r[1], r[2], r[3])
              => ~submitReview(sender, last'.id, r[1], r[2], r[3], comment)]_vars

\* Whether a rating is one of 1..5.
InRange(rating) == rating \in MinRating..MaxRating

\* C12.  submitReview with a rating outside 1..5 never succeeds; by the
\* requester of an approved request that has no review it reverts with
\* InvalidRating; and every stored review has its three ratings in 1..5.
C12_RatingsInRange ==
    [][/\ \A id \in DOMAIN reviews' :
            /\ InRange(reviews'[id].qualityRating)
            /\ InRange(reviews'[id].deliveryRating)
            /\ InRange(reviews'[id].valueRating)
       /\ last'.op = "submitReview" =>
            LET id  == last'.id
                req == getRequest(id)
                OutOfRange == {r \in General.ratings :
                                 ~(InRange(r[1]) /\ InRange(r[2])
                                   /\ InRange(r[3]))}
                Called(sender) ==
                    \E r \in OutOfRange, comment \in General.comments :
                        submitReview(sender, id, r[1], r[2], r[3], comment)
            IN  /\ last'.status = "ok"
                   => \A sender \in Callers : ~Called(sender)
                /\ last'.status # "ok" => UNCHANGED storage
                /\ (req.approved /\ id \notin DOMAIN reviews)
                   => \/ last'.status = "InvalidRating"
                      \/ ~Called(req.requester)]_vars

\* C12 witness: a review was refused as InvalidRating.
C12_Witness ==
    /\ last.op = "submitReview"
    /\ last.status = "InvalidRating"
    /\ getRequest(last.id).approved
    /\ last.id \notin DOMAIN reviews

\* The number of stored reviews whose request has the item, the seller.
ReviewsOfItem(itemId) ==
    Cardinality({id \in DOMAIN reviews : getRequest(id).itemId = itemId})
ReviewsOfSeller(sellerId) ==
    Cardinality({id \in DOMAIN reviews : getRequest(id).sellerId = sellerId})

\* C13.  A successful submitReview on a request with item I and seller S
\* appends the id to the list of I and to the list of S and leaves every
\* other list as it is; every other step leaves all lists as they are; and
\* each count is the number of stored reviews of that item, that seller.
C13_ReviewCounts ==
    [][/\ \A key \in Strings :
            /\ getItemReviewCount(key)' = ReviewsOfItem(key)'
            /\ getSellerReviewCount(key)' = ReviewsOfSeller(key)'
       /\ IF reviews' # reviews
          THEN LET id  == last'.id
                   req == getRequest(id)
               IN  /\ last'.op = "submitReview"
                   /\ last'.status = "ok"
                   /\ \A key \in Strings :
                        /\ Slot(itemReviews', key, <<>>) =
                             IF key = req.itemId
                             THEN Append(Slot(itemReviews, key, <<>>), id)
                             ELSE Slot(itemReviews, key, <<>>)
                        /\ Slot(sellerReviews', key, <<>>) =
                             IF key = req.sellerId
                             THEN Append(Slot(sellerReviews, key, <<>>), id)
                             ELSE Slot(sellerReviews, key, <<>>)
                   /\ Len(Slot(itemReviews', req.itemId, <<>>))
                        = getItemReviewCount(req.itemId) + 1
                   /\ Len(Slot(sellerReviews', req.sellerId, <<>>))
                        = getSellerReviewCount(req.sellerId) + 1
          ELSE UNCHANGED <<itemReviews, sellerReviews>>]_vars

\* C13 witness: two requests for the same item and seller are reviewed and
\* both counts are two.
C13_Witness ==
    /\ Cardinality(DOMAIN reviews) = 2
    /\ \E key \in Strings : getItemReviewCount(key) = 2
    /\ \E key \in Strings : getSellerReviewCount(key) = 2

\* C14.  setOracle by a caller that is not the owner reverts with
\* Unauthorized and leaves oracle (and all storage) as it is; by the owner it
\* succeeds and oracle becomes the address given, nothing else changing.
C14_OnlyOwnerSetsOracle ==
    [][last'.op = "setOracle" =>
        \A sender \in Callers, newOracle \in General.oracles :
            setOracle(sender, newOracle)
            => IF sender = owner
               THEN /\ last'.status = "ok"
                    /\ oracle' = newOracle
                    /\ UNCHANGED <<requests, confidentialRequests, reviews,
                                   itemReviews, sellerReviews, owner, nonce>>
               ELSE /\ last'.status = "Unauthorized"
                    /\ UNCHANGED storage]_vars

\* C14 witness: setOracle was refused as Unauthorized after the owner had
\* replaced the oracle.
C14_Witness ==
    /\ last.op = "setOracle"
    /\ last.status = "Unauthorized"
    /\ oracle # FirstOracle

\* C15.  A setOracle that replaces oracle A by B changes no request record of
\* either kind; in the state it leaves, every fulfillment by A is refused as
\* Unauthorized and B's fulfillment of every request still pending passes.
C15_OracleReplaced ==
    [][(last'.op = "setOracle" /\ oracle' # oracle) =>
        /\ UNCHANGED <<requests, confidentialRequests, reviews>>
        /\ \A A \in Callers, B \in Callers, id \in Issued,
              approved \in BOOLEAN, referencePrice \in General.refs :
              (A = oracle /\ B = oracle')
              => /\ fulfillOracleStatus(A, id, approved, referencePrice)'
                      = "Unauthorized"
                 /\ fulfillConfidentialStatus(A, id)' = "Unauthorized"
                 /\ (getRequest(id).requester # ZeroAddress
                     /\ ~getRequest(id).fulfilled)
                    => fulfillOracleStatus(B, id, approved, referencePrice)'
                          = "ok"
                 /\ (getConfidentialRequest(id).requester # ZeroAddress
                     /\ ~getConfidentialRequest(id).fulfilled)
                    => fulfillConfidentialStatus(B, id)' = "ok"]_vars

\* C15 witness: the owner has just replaced the oracle while a request is
\* pending.
C15_Witness ==
    /\ last.op = "setOracle"
    /\ last.status = "ok"
    /\ oracle # FirstOracle
    /\ \E id \in Issued :
          /\ getRequest(id).requester # ZeroAddress
          /\ ~getRequest(id).fulfilled

\* C16.  A call that fails leaves the whole storage as it was (request
\* records, confidential records, reviews, both review lists, oracle, owner,
\* _nonce) and emits no event.
C16_FailureChangesNothing ==
    [][last'.status # "ok" =>
        /\ UNCHANGED storage
        /\ last'.events = <<>>]_vars

\* C16 witness: a fulfillment of a confidential request was refused as
\* AlreadyFulfilled when a review was already stored.
C16_Witness ==
    /\ last.op = ConfidentialOp
    /\ last.status = "AlreadyFulfilled"
    /\ last.events = <<>>
    /\ reviews # <<>>

\* What the ledger shows of a confidential request: its record, the slots of
\* the other mappings under its id, and the events of the latest transaction
\* on it.
ConfidentialFields ==
    {"intentHash", "requester", "fulfilled", "approved", "revealed",
     "referencePrice", "timestamp"}
RejectionReasons ==
    {"Confidential evaluation failed", "Price exceeds market value",
     "Seller trust score too low"}
OpaqueEvent(e, id) ==
    LET req == Slot(confidentialRequests', id, ZeroConfidential)
    IN  \/ /\ e.name = "ConfidentialPurchaseRequested"
           /\ e.args = <<req.intentHash, req.requester>>
        \/ /\ e.name = "PurchaseApproved"
           /\ e.args = <<Slot(confidentialRequests', id,
                              ZeroConfidential).referencePrice>>
        \/ /\ e.name = "PurchaseApproved"
           /\ e.args = <<Slot(requests', id, ZeroRequest).referencePrice>>
        \/ /\ e.name = "PurchaseRejected"
           /\ Len(e.args) = 2
           /\ e.args[1] \in {req.referencePrice,
                             Slot(requests', id, ZeroRequest).referencePrice}
           /\ e.args[2] \in RejectionReasons

\* C17.  As long as no revealPurchase on a confidential request has
\* succeeded, its record holds intentHash, requester, the flags,
\* referencePrice and timestamp and nothing else, the other mappings hold no
\* itemId, proposedPrice or sellerId under its id, and the events on its id
\* carry the digest, the requester, the referencePrice and a fixed reason
\* only; ConfidentialPurchaseRevealed is emitted only by the reveal that
\* sets revealed.
C17_OnlyDigestObservable ==
    [][/\ \A id \in DOMAIN committed' :
            LET req == Slot(confidentialRequests', id, ZeroConfidential)
                pub == Slot(requests', id, ZeroRequest)
            IN  ~req.revealed =>
                /\ DOMAIN req = ConfidentialFields
                /\ req.intentHash
                     = IntentHash(committed'[id][1], committed'[id][2],
                                  committed'[id][3], committed'[id][4])
                /\ pub.itemId = <<>> /\ pub.sellerId = <<>>
                /\ pub.proposedPrice = 0
                /\ id \notin DOMAIN reviews'
                /\ (last'.id = id /\ last' # last) =>
                      \A i \in 1..Len(last'.events) :
                          OpaqueEvent(last'.events[i], id)
       /\ \A i \in 1..Len(last'.events) :
            (last'.events[i].name = "ConfidentialPurchaseRevealed"
             /\ last' # last)
            => /\ last'.op = "revealPurchase"
               /\ last'.status = "ok"
               /\ ~getConfidentialRequest(last'.id).revealed
               /\ Slot(confidentialRequests', last'.id,
                       ZeroConfidential).revealed]_vars

\* C17 witness: a confidential request was decided by the oracle and is not
\* revealed.
C17_Witness ==
    /\ last.op = ConfidentialOp
    /\ last.status = "ok"
    /\ last.id \in DOMAIN committed
    /\ getConfidentialRequest(last.id).fulfilled
    /\ ~getConfidentialRequest(last.id).revealed

\* The evaluate call has been answered with a decision.
Decision == response.status = 200

\* Every promise of the call has settled.
AllSettled == \A p \in Providers : answers[p].state \in {"fulfilled", "rejected"}

\* The positive prices the marketplaces returned to the call, with repeats.
PositivePrices ==
    LET returned == SelectSeq(PriceProviders,
                        LAMBDA p : /\ answers[p].state = "fulfilled"
                                   /\ answers[p].value > 0)
    IN  [i \in 1..Len(returned) |-> answers[returned[i]].value]

\* C18: the reference price of a decision is the median of the positive
\* price samples; with an even number of samples it is the lower of the two
\* middle values of the sorted list.
C18_LowerMiddle ==
    Decision =>
        LET sorted == sort(PositivePrices)
        IN  response.referencePrice = sorted[(Len(sorted) + 1) \div 2]

\* What the code returns instead: the middle value of an odd number of
\* samples and the upper of the two middle values of an even number.
C18_UpperMiddle ==
    Decision =>
        LET sorted == sort(PositivePrices)
        IN  response.referencePrice = sorted[(Len(sorted) \div 2) + 1]

\* C19: evaluate answers with the no-sources error, without approved flag
\* and verdict, exactly when every marketplace returns zero; when at least
\* one marketplace returns a positive price the answer is a decision whose
\* referencePrice is one of the returned positive prices; nothing is approved
\* without a reference price.  Stated for calls whose seller score arrives.
C19_NoSourcesOrDecision ==
    (AllSettled /\ answers["sellerScore"].state = "fulfilled") =>
        LET everyZero == \A i \in 1..Len(PriceProviders) :
                             answers[PriceProviders[i]] = Fulfilled(0)
            positive == {PositivePrices[i] : i \in 1..Len(PositivePrices)}
        IN  /\ (response.status = 404) <=> everyZero
            /\ response.status = 404 =>
                  DOMAIN response \cap {"approved", "verdict"} = {}
            /\ positive # {} =>
                  Decision /\ response.referencePrice \in positive
            /\ ("approved" \in DOMAIN response /\ response.approved) =>
                  /\ "referencePrice" \in DOMAIN response
                  /\ response.referencePrice \in positive

\* The same when no promise is rejected: the part of C19 the code keeps.
C19_WhenAllFulfil ==
    (\A p \in Providers : answers[p].state = "fulfilled") =>
        LET positive == {PositivePrices[i] : i \in 1..Len(PositivePrices)}
        IN  /\ (response.status = 404) <=> (positive = {})
            /\ response.status = 404 =>
                  DOMAIN response \cap {"approved", "verdict"} = {}
            /\ positive # {} =>
                  Decision /\ response.referencePrice \in positive

\* C20: when one marketplace's query fails while another marketplace
\* returns a positive price (and the seller score arrives), evaluate answers
\* with a decision computed from the remaining samples.
C20_FailedProviderExcluded ==
    LET failed == {i \in 1..Len(PriceProviders) :
                      answers[PriceProviders[i]] = Rejected}
    IN  (/\ AllSettled
         /\ Cardinality(failed) = 1
         /\ Len(PositivePrices) > 0
         /\ answers["sellerScore"].state = "fulfilled")
        => /\ Decision
           /\ response.referencePrice = median(PositivePrices)

\* A price provider's failure ends the call in the catch block.
C20_FailureAborts ==
    (\E p \in Providers : answers[p] = Rejected) => response.status # 200

\* The four sub-scores of the decision, each as a fraction over 1000 * d
\* with d = max(price, 1), written from the formulas of the specification:
\* priceFairness = 100 * min(1, referencePrice / price), qualitySignal =
\* 10 * rating + 30 * min(1, reviewCount / 10000) + max(0, 20 - returnRate),
\* sellerTrust = 100 * score, valueRatio = min(100, 20 * rating *
\* referencePrice / price), taken as 100 for a price of 0.
SubScoresOn(price) ==
    LET d == IF price > 1 THEN price ELSE 1
        p == response.product
        ref == response.referencePrice
    IN  [d |-> d,
         priceFairness |-> IF ref >= d THEN 100000 * d ELSE 100000 * ref,
         qualitySignal |->
            d * (1000 * p.rating
                 + 3 * (IF p.reviewCount > 10000 THEN 10000 ELSE p.reviewCount)
                 + 100 * (IF p.returnRate > 200 THEN 0 ELSE 200 - p.returnRate)),
         sellerTrust |-> 100 * d * response.seller.score,
         valueRatio |-> IF price = 0 \/ 2 * p.rating * ref >= 100 * d
                        THEN 100000 * d
                        ELSE 2000 * p.rating * ref]

\* The sub-scores on the price of the request body.
SubScores == SubScoresOn(body.price)

\* C21: for every proposedPrice >= 0, referencePrice > 0, rating in 0..5,
\* reviewCount >= 0, returnRate >= 0 and trust score in 0..1, valueScore is
\* an integer in 0..100, equal to the rounded weighted sum of the four
\* sub-scores, and each sub-score lies in 0..100.
C21_ValueScoreInRange ==
    Decision =>
        LET s == SubScores
            sum == 35 * s.priceFairness + 25 * s.qualitySignal
                   + 25 * s.sellerTrust + 15 * s.valueRatio
        IN  /\ response.valueScore \in 0..100
            /\ response.valueScore = (2 * sum + 100000 * s.d) \div (200000 * s.d)
            /\ \A k \in DOMAIN response.breakdown :
                  response.breakdown[k] \in 0..100

\* The same for every decision but those on a proposed price of 0 for a
\* product rated 0, where the value ratio is 0 / 0.
C21_UnlessZeroByZero ==
    (Decision /\ ~(body.price = 0 /\ response.product.rating = 0)) =>
        LET s == SubScores
            sum == 35 * s.priceFairness + 25 * s.qualitySignal
                   + 25 * s.sellerTrust + 15 * s.valueRatio
        IN  /\ response.valueScore \in 0..100
            /\ response.valueScore = (2 * sum + 100000 * s.d) \div (200000 * s.d)
            /\ \A k \in DOMAIN response.breakdown :
                  response.breakdown[k] \in 0..100

\* Comparisons of doubles: each is false when an operand is NaN.
AtLeast(x, y) == x # NaN /\ x >= y
Below(x, y) == x # NaN /\ x < y

\* C22: for a seller whose trust score is at least 0.4 the verdict is
\* APPROVE exactly when valueScore >= 70, CAUTION exactly when
\* 40 <= valueScore < 70 and REJECT exactly when valueScore < 40; in every
\* decision approved is true exactly when the verdict is APPROVE.
C22_VerdictByThreshold ==
    Decision =>
        LET v == response.valueScore
        IN  /\ response.approved <=> response.verdict = "APPROVE"
            /\ response.seller.score >= SellerFloor =>
                  /\ response.verdict = "APPROVE" <=> AtLeast(v, 70)
                  /\ response.verdict = "CAUTION" <=>
                        (AtLeast(v, 40) /\ Below(v, 70))
                  /\ response.verdict = "REJECT" <=> Below(v, 40)

\* The same for the decisions whose valueScore is a number.
C22_WhenScoreIsNumber ==
    (Decision /\ response.valueScore # NaN) =>
        LET v == response.valueScore
        IN  /\ response.approved <=> response.verdict = "APPROVE"
            /\ response.seller.score >= SellerFloor =>
                  /\ response.verdict = "APPROVE" <=> v >= 70
                  /\ response.verdict = "CAUTION" <=> (v >= 40 /\ v < 70)
                  /\ response.verdict = "REJECT" <=> v < 40

\* Decisions of each verdict on a seller at or above the floor.
C22_SeenApprove ==
    Decision /\ response.seller.score >= SellerFloor /\ response.verdict = "APPROVE"
C22_SeenCaution ==
    Decision /\ response.seller.score >= SellerFloor /\ response.verdict = "CAUTION"
C22_SeenReject ==
    /\ Decision /\ response.seller.score >= SellerFloor
    /\ response.verdict = "REJECT" /\ response.valueScore # NaN

\* C23: whenever the seller's trust score is below 0.4 the decision is a
\* rejection (approved is false, the verdict is not APPROVE) with the
\* trust-blocked reason, whatever the price and the product data, also
\* when valueScore is 70 or more.
C23_LowTrustRejected ==
    (Decision /\ response.seller.score < SellerFloor) =>
        /\ ~response.approved
        /\ response.verdict # "APPROVE"
        /\ response.reason = "Seller trust critically low - blocked"

\* A seller below the floor was rejected on a valueScore of 70 or more.
C23_Witness ==
    /\ Decision
    /\ response.seller.score < SellerFloor
    /\ AtLeast(response.valueScore, THRESHOLDS.approve)
    /\ ~response.approved

\* proposedPrice - cashback - coupon + shippingFee on the deal data of the
\* item of the call.
EffectivePrice ==
    LET deal == getDealData(body.itemId)
    IN  body.price - deal.cashback - deal.coupon + deal.shippingFee

\* C24: evaluate computes effectivePrice = proposedPrice - cashback - coupon
\* + shippingFee from the item's deal data, scores priceFairness and
\* valueRatio on effectivePrice instead of proposedPrice, and returns
\* effectivePrice in the decision.
C24_EffectivePriceUsed ==
    Decision =>
        LET s == SubScoresOn(EffectivePrice)
        IN  /\ "effectivePrice" \in DOMAIN response
            /\ response.effectivePrice = EffectivePrice
            /\ response.breakdown.priceFairness
                  = Round(s.priceFairness, 1000 * s.d)
            /\ response.breakdown.valueRatio = Round(s.valueRatio, 1000 * s.d)

\* What the code does: the decision has no effectivePrice and its
\* priceFairness and valueRatio are those of the proposed price.
C24_ProposedPriceUsed ==
    (Decision /\ response.valueScore # NaN) =>
        LET s == SubScores
        IN  /\ "effectivePrice" \notin DOMAIN response
            /\ response.breakdown.priceFairness
                  = Round(s.priceFairness, 1000 * s.d)
            /\ response.breakdown.valueRatio = Round(s.valueRatio, 1000 * s.d)

\* The two prices give different price fairness in some decision.
C24_ScoresDiffer ==
    /\ Decision
    /\ response.breakdown.priceFairness
          # Round(SubScoresOn(EffectivePrice).priceFairness,
                  1000 * SubScoresOn(EffectivePrice).d)

LedgerRatings(sellerId) ==
    LET ids == Slot(sellerReviews, sellerId, <<>>)
    IN  [i \in 1..Len(ids) |->
            LET review == getReview(ids[i])
            IN  <<review.qualityRating, review.deliveryRating,
                  review.valueRating>>]

\* C26: a review accepted by submitReview for a request with seller S is
\* taken into account by every later getScore(S): the reviews it counts and
\* averages include that review.
C26_ReviewsReachBlender ==
    [][blend' # blend =>
          LET held == LedgerRatings(blend'.sellerId)
              used == blend'.reviews
          IN  \A t \in {held[i] : i \in 1..Len(held)} :
                  Cardinality({i \in 1..Len(used) : used[i] = t})
                      >= Cardinality({i \in 1..Len(held) : held[i] = t})]_vars

\* What the service does: the reviews it uses are those of its own table.
C26_TableOnly ==
    [][blend' # blend => blend'.reviews = agentReviews(blend'.sellerId)]_vars

\* C27: every PurchaseRequested notification is followed by exactly one
\* fulfillOracleDecision call for its request id, made by the oracle with
\* the approved flag and referencePrice of the engine's answer; no request
\* whose evaluation succeeded is left pending.  Stated at the end of the
\* workflow's run: once the handler has returned on a successful
\* evaluation, the request is fulfilled with that decision.
C27_EvaluatedThenFulfilled ==
    workflow.phase = "returned" =>
        LET id == workflow.purchase.requestId
            req == getRequest(id)
        IN  /\ <<"fulfillOracleDecision", id>> \in decided
            /\ req.fulfilled
            /\ req.approved = workflow.result.approved
            /\ req.referencePrice = workflow.result.referencePrice

\* What the workflow does: whatever the evaluation gave, the request it
\* was triggered for is still pending when the handler has ended.
C27_LeftPending ==
    workflow.phase \in {"returned", "threw"} =>
        ~getRequest(workflow.purchase.requestId).fulfilled

\* C28: on a confidential request revealPurchase and
\* fulfillConfidentialDecision are independent: a valid reveal succeeds
\* whether or not the request is fulfilled, a fulfilment succeeds whether
\* or not it is revealed, a reveal leaves fulfilled, approved and
\* referencePrice as they are, and a fulfilment leaves revealed and
\* intentHash as they are.
C28_RevealAndFulfilIndependent ==
    [][/\ last'.op = "revealPurchase" =>
            LET id == last'.id
                req == getConfidentialRequest(id)
                new == Slot(confidentialRequests', id, ZeroConfidential)
            IN  /\ new.fulfilled = req.fulfilled
                /\ new.approved = req.approved
                /\ new.referencePrice = req.referencePrice
                /\ \A t \in General.reveals :
                      (/\ id \in DOMAIN confidentialRequests
                       /\ ~req.revealed
                       /\ IntentHash(t[1], t[2], t[3], t[4]) = req.intentHash)
                      => \/ last'.status = "ok" /\ new.revealed
                         \/ ~revealPurchase(req.requester, id, t[1], t[2],
                                            t[3], t[4])
       /\ last'.op = "fulfillConfidentialDecision" =>
            LET id == last'.id
                req == getConfidentialRequest(id)
                new == Slot(confidentialRequests', id, ZeroConfidential)
            IN  /\ new.revealed = req.revealed
                /\ new.intentHash = req.intentHash
                /\ \A approved \in BOOLEAN, referencePrice \in General.refs :
                      (id \in DOMAIN confidentialRequests /\ ~req.fulfilled)
                      => \/ last'.status = "ok" /\ new.fulfilled
                         \/ ~fulfillConfidentialDecision(oracle, id, approved,
                                                         referencePrice)]_vars

\* C28 witness: a request was revealed before the oracle decided it, and
\* the decision then succeeded.
C28_Witness ==
    /\ last.op = "fulfillConfidentialDecision"
    /\ last.status = "ok"
    /\ last.id \in DOMAIN committed
    /\ getConfidentialRequest(last.id).revealed
    /\ getConfidentialRequest(last.id).fulfilled

\* The other order: a fulfilled request was revealed.
C28_RevealedAfterDecision ==
    /\ last.op = "revealPurchase"
    /\ last.status = "ok"
    /\ getConfidentialRequest(last.id).fulfilled

\* ---------------------------------------------------------------------------
\* C29: a successful fulfillOracleDecision(id, approved, referencePrice) leaves
\* the request with fulfilled = TRUE and with exactly the approved flag and
\* the referencePrice of the call, whatever proposedPrice is, changes no other
\* field of it, and emits PurchaseApproved when approved is TRUE and
\* PurchaseRejected otherwise.
C29_DecisionStoredAsGiven ==
    [][(last'.op = "fulfillOracleDecision" /\ last'.status = "ok") =>
         LET id == last'.id
             req == getRequest(id)
             new == Slot(requests', id, ZeroRequest)
         IN  \A approved \in BOOLEAN, referencePrice \in General.refs :
                \/ /\ new = [req EXCEPT !.fulfilled = TRUE,
                                        !.approved = approved,
                                        !.referencePrice = referencePrice]
                   /\ Len(last'.events) = 1
                   /\ last'.events[1].requestId = id
                   /\ last'.events[1].name =
                          IF approved THEN "PurchaseApproved"
                          ELSE "PurchaseRejected"
                   /\ last'.events[1].args[1] = referencePrice
                \/ ~fulfillOracleDecision(oracle, id, approved,
                                          referencePrice)]_vars

\* A rejection is stored for a created request whose proposedPrice is within
\* 110% of the referencePrice: a flag derived from the prices would be TRUE.
C29_Witness ==
    /\ last.op = "fulfillOracleDecision"
    /\ last.status = "ok"
    /\ last.id \in DOMAIN requests
    /\ getRequest(last.id).requester # ZeroAddress
    /\ getRequest(last.id).fulfilled
    /\ ~getRequest(last.id).approved
    /\ getRequest(last.id).proposedPrice
           <= (getRequest(last.id).referencePrice * 110) \div 100
    /\ last.events[1].name = "PurchaseRejected"

\* An approval is stored and announced as well.
C29_ApprovalStored ==
    /\ last.op = "fulfillOracleDecision"
    /\ last.status = "ok"
    /\ getRequest(last.id).requester # ZeroAddress
    /\ getRequest(last.id).approved
    /\ last.events[1].name = "PurchaseApproved"

\* ---------------------------------------------------------------------------
\* C30: every successful creation, fulfilment, reveal and review emits exactly
\* one event, whose requestId is the one id whose record the call changed;
\* every other call, failed or not of the request lifecycle, emits none.
LifecycleOps ==
    {"requestPurchase", "requestConfidentialPurchase",
     "fulfillConfidentialDecision", "revealPurchase", "fulfillOracleDecision",
     "submitReview"}
RecordChanged(id) ==
    \/ Slot(requests', id, ZeroRequest) # getRequest(id)
    \/ Slot(confidentialRequests', id, ZeroConfidential)
           # getConfidentialRequest(id)
    \/ Slot(reviews', id, ZeroReview) # getReview(id)
KnownIds ==
    DOMAIN requests \cup DOMAIN confidentialRequests \cup DOMAIN reviews
RecordsChanged == {id \in KnownIds \cup KnownIds' : RecordChanged(id)}
C30_OneEventPerTransition ==
    [][(last' # last \/ storage' # storage) =>
         IF last'.op \in LifecycleOps /\ last'.status = "ok"
         THEN /\ Len(last'.events) = 1
              /\ RecordsChanged = {last'.events[1].requestId}
         ELSE /\ last'.events = <<>>
              /\ RecordsChanged = {}]_vars

\* A successful call of each kind has left its one event.
C30_Witness ==
    /\ last.op = "submitReview"
    /\ last.status = "ok"
    /\ Len(last.events) = 1
    /\ last.events[1].name = "ReviewSubmitted"
    /\ last.events[1].requestId \in DOMAIN reviews

\* A successful call outside the request lifecycle has left no event.
C30_SilentSetOracle ==
    /\ last.op = "setOracle"
    /\ last.status = "ok"
    /\ last.events = <<>>
    /\ oracle # FirstOracle

\* A failed lifecycle call has left no event.
C30_SilentFailure ==
    /\ last.op \in LifecycleOps
    /\ last.status # "ok"
    /\ last.events = <<>>

\* ---------------------------------------------------------------------------
\* C31: when fulfillOracleDecision records a rejection, the reason it emits is
\* "Price exceeds market value" exactly when proposedPrice is greater than
\* 110% of referencePrice in exact arithmetic (100 * proposedPrice >
\* 110 * referencePrice), and "Seller trust score too low" otherwise.
C31_ReasonByExactComparison ==
    [][(/\ last'.op = "fulfillOracleDecision"
        /\ last'.status = "ok"
        /\ last'.events[1].name = "PurchaseRejected") =>
         LET req == getRequest(last'.id)
             referencePrice == last'.events[1].args[1]
         IN  last'.events[1].args[2] =
                 IF 100 * req.proposedPrice > 110 * referencePrice
                 THEN "Price exceeds market value"
                 ELSE "Seller trust score too low"]_vars

\* A plain request is rejected at a price above its referencePrice but not
\* above 110% of it, where 110% is no integer: the trust reason.
C31_Witness ==
    /\ last.op = "fulfillOracleDecision"
    /\ last.status = "ok"
    /\ getRequest(last.id).requester # ZeroAddress
    /\ last.events[1].name = "PurchaseRejected"
    /\ getRequest(last.id).referencePrice > 0
    /\ (getRequest(last.id).referencePrice * 110) % 100 # 0
    /\ getRequest(last.id).proposedPrice
           = (getRequest(last.id).referencePrice * 110) \div 100
    /\ last.events[1].args[2] = "Seller trust score too low"

\* A plain request is rejected one above that price: the price reason.
C31_PriceReason ==
    /\ last.op = "fulfillOracleDecision"
    /\ last.status = "ok"
    /\ getRequest(last.id).requester # ZeroAddress
    /\ last.events[1].name = "PurchaseRejected"
    /\ getRequest(last.id).referencePrice > 0
    /\ getRequest(last.id).proposedPrice
           = (getRequest(last.id).referencePrice * 110) \div 100 + 1
    /\ last.events[1].args[2] = "Price exceeds market value"

\* ---------------------------------------------------------------------------
\* C32: every decision carries one reason, the first that applies of: the
\* blocked reason when the seller score is below 0.4, the approval reason when
\* approved, the price reason when priceFairness < 50, the seller-trust reason
\* when sellerTrust < 50, the quality reason when qualitySignal < 40, and the
\* below-threshold reason.
C32_ReasonByPriority ==
    Decision =>
        response.reason =
            IF response.seller.score < SellerFloor
            THEN "Seller trust critically low - blocked"
            ELSE IF response.approved THEN "Fair price and trusted seller"
            ELSE IF response.breakdown.priceFairness < 50
            THEN "Price above market median"
            ELSE IF response.breakdown.sellerTrust < 50
            THEN "Seller trust too low"
            ELSE IF response.breakdown.qualitySignal < 40
            THEN "Low product quality"
            ELSE "Value score below threshold"

\* A decision where both the price test and the seller-trust test apply: the
\* price reason is given.
C32_Witness ==
    /\ Decision
    /\ response.seller.score >= SellerFloor
    /\ ~response.approved
    /\ response.breakdown.priceFairness < 50
    /\ response.breakdown.sellerTrust < 50
    /\ response.reason = "Price above market median"

\* Every reason is given by some decision.
C32_SeenBlocked ==
    Decision /\ response.reason = "Seller trust critically low - blocked"
C32_SeenApproval == Decision /\ response.reason = "Fair price and trusted seller"
C32_SeenTrust == Decision /\ response.reason = "Seller trust too low"
C32_SeenQuality == Decision /\ response.reason = "Low product quality"
C32_SeenGeneric == Decision /\ response.reason = "Value score below threshold"

\* ---------------------------------------------------------------------------
\* C33: every evaluate call that is waiting for its providers eventually
\* sends a response, also when a provider never answers.
Waiting == response = NoResponse /\ \E p \in Providers : answers[p] = Pending
C33_EveryCallAnswered == Waiting ~> response # NoResponse

\* The state the call stays in for ever: every other provider has answered
\* with a price or a score, marketplaceB has not, and nothing has been sent.
C33_LeftWaiting ==
    /\ answers[Silent] = Pending
    /\ \A p \in Providers \ {Silent} : answers[p].state = "fulfilled"
    /\ response = NoResponse

\* ---------------------------------------------------------------------------
\* C34: a fulfilment, reveal or review on one request id, successful or not,
\* leaves the record of every other id in requests, confidentialRequests and
\* reviews as it was and leaves oracle and owner as they were; _nonce changes
\* only in a successful request creation.
IdOps ==
    {"fulfillConfidentialDecision", "revealPurchase", "fulfillOracleDecision",
     "submitReview"}
CreationOps == {"requestPurchase", "requestConfidentialPurchase"}
C34_OtherRequestsUntouched ==
    [][/\ (last'.op \in IdOps /\ (last' # last \/ storage' # storage)) =>
             /\ \A id \in (KnownIds \cup KnownIds') \ {last'.id} :
                   ~RecordChanged(id)
             /\ oracle' = oracle
             /\ owner' = owner
       /\ nonce' # nonce =>
             /\ last'.op \in CreationOps
             /\ last'.status = "ok"
             /\ nonce' = nonce + 1]_vars

\* A plain request has been fulfilled while another request of the same
\* caller, created before it, is still pending with its fields as created.
C34_Witness ==
    /\ last.op = "fulfillOracleDecision"
    /\ last.status = "ok"
    /\ Len(issued) = 2
    /\ last.id = issued[2]
    /\ issued[1] # issued[2]
    /\ issued[1] \in DOMAIN requests
    /\ getRequest(issued[1]).requester = NumCallers
    /\ ~getRequest(issued[1]).fulfilled
    /\ nonce = 2

\* ---------------------------------------------------------------------------
\* C35: in every reachable state, every plain and every confidential request
\* record with approved = TRUE or referencePrice # 0 has fulfilled = TRUE, so
\* that `approved` alone says `fulfilled && approved`.
C35_DecisionFieldsImplyFulfilled ==
    /\ \A id \in DOMAIN requests :
          (requests[id].approved \/ requests[id].referencePrice # 0)
              => requests[id].fulfilled
    /\ \A id \in DOMAIN confidentialRequests :
          (confidentialRequests[id].approved
             \/ confidentialRequests[id].referencePrice # 0)
              => confidentialRequests[id].fulfilled

\* A review has been accepted on the test of approved alone: its request is
\* fulfilled and approved.
C35_Witness ==
    /\ last.op = "submitReview"
    /\ last.status = "ok"
    /\ getRequest(last.id).approved
    /\ getRequest(last.id).referencePrice # 0
    /\ getRequest(last.id).fulfilled

\* A creation has stored its request in a slot that a fulfilment had filled
\* before: the decision is gone from the record.
C35_ResetByCreation ==
    /\ last.op = "requestPurchase"
    /\ last.status = "ok"
    /\ <<"fulfillOracleDecision", last.id>> \in decided
    /\ ~getRequest(last.id).fulfilled
    /\ ~getRequest(last.id).approved
    /\ getRequest(last.id).referencePrice = 0

\* ---------------------------------------------------------------------------
\* C36: in every reachable state, every stored review is stored under the id
\* of a plain request that is fulfilled and approved, its reviewer is that
\* request's requester, and its requestId field is the key it is stored
\* under.
C36_ReviewOfApprovedRequest ==
    \A id \in DOMAIN reviews :
        /\ id \in DOMAIN requests
        /\ requests[id].fulfilled
        /\ requests[id].approved
        /\ requests[id].requester # ZeroAddress
        /\ reviews[id].reviewer = requests[id].requester
        /\ reviews[id].requestId = id

\* A review is stored, and later calls have been made on its id.
C36_Witness ==
    /\ \E id \in DOMAIN reviews : reviews[id].timestamp # 0
    /\ last.op # "submitReview"
    /\ last.id \in DOMAIN reviews

\* ---------------------------------------------------------------------------
\* C37: in every reachable state, every plain and every confidential record
\* with fulfilled = TRUE has a non-zero requester: a fulfilment succeeds only
\* on an id that a creation of the matching kind has returned.
C37_FulfilledWereCreated ==
    /\ \A id \in DOMAIN requests :
          requests[id].fulfilled => requests[id].requester # ZeroAddress
    /\ \A id \in DOMAIN confidentialRequests :
          confidentialRequests[id].fulfilled
              => confidentialRequests[id].requester # ZeroAddress

\* The same for a fulfilment of the matching kind on an id that a creation
\* has returned: there the record has its requester.
C37_MatchingKindOnly ==
    (/\ last.status = "ok"
     /\ \/ last.op = "fulfillOracleDecision" /\ last.id \notin DOMAIN committed
        \/ last.op = "fulfillConfidentialDecision" /\ last.id \in DOMAIN committed)
    => IF last.op = "fulfillOracleDecision"
       THEN getRequest(last.id).requester # ZeroAddress
       ELSE getConfidentialRequest(last.id).requester # ZeroAddress

\* ---------------------------------------------------------------------------
\* C38: for every request id, the successful fulfilments of both kinds
\* together have emitted at most one decision event, and a decision event
\* just emitted for an id a creation has returned says what the approved flag
\* of the record created under that id says.
CreatedRecord(id) ==
    IF id \in DOMAIN committed THEN getConfidentialRequest(id)
    ELSE getRequest(id)
C38_OneDecisionPerId ==
    /\ \A d, e \in decided : d[2] = e[2] => d = e
    /\ (/\ last.op \in {"fulfillOracleDecision", "fulfillConfidentialDecision"}
        /\ last.status = "ok"
        /\ \E i \in 1..Len(issued) : issued[i] = last.id)
       => /\ CreatedRecord(last.id).fulfilled
          /\ CreatedRecord(last.id).approved
                 = (last.events[1].name = "PurchaseApproved")

\* Decisions of the matching kind agree with the created record.
C38_MatchingKindAgrees ==
    (/\ last.status = "ok"
     /\ \E i \in 1..Len(issued) : issued[i] = last.id
     /\ \/ last.op = "fulfillOracleDecision" /\ last.id \notin DOMAIN committed
        \/ last.op = "fulfillConfidentialDecision" /\ last.id \in DOMAIN committed)
    => /\ CreatedRecord(last.id).fulfilled
       /\ CreatedRecord(last.id).approved
              = (last.events[1].name = "PurchaseApproved")

\* One id has a successful fulfilment of each kind, the later one announcing
\* an approval after the earlier one announced a rejection.
C38_TwoDecisions ==
    /\ \E d, e \in decided : d[2] = e[2] /\ d # e /\ d[2] = last.id
    /\ last.status = "ok"
    /\ last.op = "fulfillOracleDecision"
    /\ last.events[1].name = "PurchaseApproved"
    /\ ~getConfidentialRequest(last.id).approved
    /\ getConfidentialRequest(last.id).fulfilled

\* ---------------------------------------------------------------------------
\* C39: for every pending plain request and every referencePrice of the word,
\* fulfillOracleDecision called by the oracle succeeds with approved = TRUE
\* and with approved = FALSE.
PendingPlain ==
    {id \in DOMAIN requests :
        requests[id].requester # ZeroAddress /\ ~requests[id].fulfilled}
C39_AnyReferencePriceAccepted ==
    \A id \in PendingPlain, approved \in BOOLEAN, referencePrice \in PricedRefs :
        fulfillOracleStatus(oracle, id, approved, referencePrice) = "ok"

\* The call succeeds whenever approved is TRUE or referencePrice * 110 fits
\* the word.
C39_AcceptedWhenProductFits ==
    \A id \in PendingPlain, approved \in BOOLEAN, referencePrice \in PricedRefs :
        (approved \/ referencePrice * 110 <= MaxUint)
            => fulfillOracleStatus(oracle, id, approved, referencePrice) = "ok"

\* A rejection at the largest referencePrice whose product fits has been
\* stored; one at the next referencePrice has failed.
C39_LargestAccepted ==
    /\ last.op = "fulfillOracleDecision"
    /\ last.status = "ok"
    /\ last.events[1].name = "PurchaseRejected"
    /\ getRequest(last.id).referencePrice = MaxUint \div 110
C39_Panicked ==
    /\ last.op = "fulfillOracleDecision"
    /\ last.status = "Panic"
    /\ last.id \in PendingPlain

\* ---------------------------------------------------------------------------
\* C40: submitReview on the id of a confidential request fails for every
\* caller and every rating, its requester included and also when the request
\* is fulfilled and approved; no review is stored under such an id, and no
\* such id is in an item's or a seller's review list.
ConfidentialIds ==
    {id \in DOMAIN confidentialRequests :
        confidentialRequests[id].requester # ZeroAddress}
Listed(lists) == UNION {{lists[k][i] : i \in 1..Len(lists[k])} : k \in DOMAIN lists}
C40_NoReviewOfConfidential ==
    /\ \A id \in ConfidentialIds, sender \in Callers, t \in RatingTriples :
          submitReviewStatus(sender, id, t[1], t[2], t[3]) = "Unauthorized"
    /\ (last.op = "submitReview" /\ last.id \in ConfidentialIds)
          => last.status = "Unauthorized" /\ last.events = <<>>
    /\ \A id \in ConfidentialIds :
          /\ getReview(id) = ZeroReview
          /\ id \notin Listed(itemReviews)
          /\ id \notin Listed(sellerReviews)

\* submitReview has failed on a confidential request that is fulfilled,
\* approved and revealed, and whose id the oracle has approved through
\* fulfillOracleDecision as well.
C40_Witness ==
    /\ last.op = "submitReview"
    /\ last.status = "Unauthorized"
    /\ last.id \in ConfidentialIds
    /\ getConfidentialRequest(last.id).fulfilled
    /\ getConfidentialRequest(last.id).approved
    /\ getConfidentialRequest(last.id).revealed
    /\ getRequest(last.id).approved

=============================================================================
